---- MODULE Spec2Model ----
(***************************************************************************)
(* A model of asttokens: the line/offset index (LineNumbers), the token    *)
(* list of ASTTokens with its navigation methods, the two tree passes      *)
(* that assign first_token and last_token to every node                    *)
(* (AssignFirstTokens, AssignLastTokens, driven by visit_tree), the        *)
(* extraction of a node's text range, and the bracket interval tree        *)
(* (intervaltree.py).                                                      *)
(*                                                                         *)
(* Conventions.  A token is referred to by its .index (0-based, as in the  *)
(* program); tokens[i + 1] is the Token of index i.  Python's None is the  *)
(* value None.  A call returns a record: exc = "" and the value, or exc =  *)
(* the name of the exception it raises.  Source text is a sequence of      *)
(* one-character strings; every input is ASCII, so a utf8 column is a      *)
(* character column.                                                       *)
(***************************************************************************)
EXTENDS Integers, Sequences, FiniteSets, TLC

VARIABLES
  text,           \* ASTTokens._text
  line_offsets,   \* LineNumbers._line_offsets
  tokens,         \* ASTTokens._tokens
  token_offsets,  \* ASTTokens._token_offsets
  tree,           \* the tree handed to mark_tokens: node id -> node, the root is node 1
  first_token,    \* node id -> .first_token, defined on the nodes that have the attribute
  last_token,     \* node id -> .last_token, defined on the nodes that have the attribute
  pc,             \* where mark_tokens is: "idle", "first", "last", "done", "error"
  stack,          \* visit_tree's explicit stack
  done,           \* visit_tree's done set
  call,           \* the last call made on the object
  ret,            \* what that call returned or raised
  runs,           \* how many times mark_tokens has been called on the tree
  root            \* the objects of the interval tree make_tree built: id -> node, <<>> before

vars == <<text, line_offsets, tokens, token_offsets, tree, first_token, last_token,
          pc, stack, done, call, ret, runs, root>>

(***************************************************************************)
(* Bounds of the model.                                                    *)
(***************************************************************************)
MaxText == 4

\* how many times mark_tokens is called on one tree
MaxRuns == 2

\* the longest text an interval tree is built for
MaxBrackets == 4

(***************************************************************************)
(* Values.                                                                 *)
(***************************************************************************)
None == -1

NoStr == "<None>"

\* what a call returns: a token (or None), a list of tokens, a (start, end) range, a string
Ok(v) == [exc |-> "", kind |-> IF v = None THEN "none" ELSE "token", val |-> v,
          seq |-> <<>>, txt |-> <<>>]

OkSeq(s) == [exc |-> "", kind |-> "tokens", val |-> None, seq |-> s, txt |-> <<>>]

OkRange(s, e) == [exc |-> "", kind |-> "range", val |-> None, seq |-> <<s, e>>, txt |-> <<>>]

OkStr(t) == [exc |-> "", kind |-> "str", val |-> None, seq |-> <<>>, txt |-> t]

OkInt(v) == [exc |-> "", kind |-> "int", val |-> v, seq |-> <<>>, txt |-> <<>>]

OkPos(line, col) == [exc |-> "", kind |-> "pos", val |-> None, seq |-> <<line, col>>, txt |-> <<>>]

Raise(e) == [exc |-> e, kind |-> "raise", val |-> None, seq |-> <<>>, txt |-> <<>>]

NoCall == [op |-> "", a |-> None, b |-> None, typ |-> "", str |-> NoStr, flag |-> FALSE]

Call(op, a, b, typ, str, flag) ==
  [op |-> op, a |-> a, b |-> b, typ |-> typ, str |-> str, flag |-> flag]

(***************************************************************************)
(* LineNumbers.                                                            *)
(***************************************************************************)
RECURSIVE LineStartsFrom(_, _)
LineStartsFrom(t, i) ==
  IF i > Len(t) THEN <<>>
  ELSE IF t[i] = "\n" THEN <<i>> \o LineStartsFrom(t, i + 1)
  ELSE LineStartsFrom(t, i + 1)

\* [m.start(0) for m in _line_start_re.finditer(text)]: 0 and the offset after every "\n"
LineOffsets(t) == <<0>> \o LineStartsFrom(t, 1)

Max(a, b) == IF a >= b THEN a ELSE b

Min(a, b) == IF a <= b THEN a ELSE b

line_to_offset_in(offs, text_len, line, column) ==
  LET l == line - 1 IN
  IF l >= Len(offs) THEN text_len
  ELSE IF l < 0 THEN 0
  ELSE Min(offs[l + 1] + Max(0, column), text_len)

\* line_to_offset without the max(0, column)
line_to_offset_negative_column(line, column) ==
  LET l == line - 1 IN
  IF l >= Len(line_offsets) THEN Len(text)
  ELSE IF l < 0 THEN 0
  ELSE Min(line_offsets[l + 1] + column, Len(text))

line_to_offset(line, column) == line_to_offset_in(line_offsets, Len(text), line, column)

RECURSIVE bisect_loop(_, _, _, _)
bisect_loop(a, x, lo, hi) ==
  IF lo < hi
  THEN LET mid == (lo + hi) \div 2 IN
       IF x < a[mid + 1] THEN bisect_loop(a, x, lo, mid) ELSE bisect_loop(a, x, mid + 1, hi)
  ELSE lo

bisect(a, x) == bisect_loop(a, x, 0, Len(a))

offset_to_line(offset) ==
  LET clamped == Max(0, Min(Len(text), offset))
      line_index == bisect(line_offsets, clamped) - 1
  IN OkPos(line_index + 1, clamped - line_offsets[line_index + 1])

(***************************************************************************)
(* The tokenizer (tokenize.generate_tokens), for source made of the        *)
(* characters of Alphabet in which no line of code is indented: names,     *)
(* comments, blank lines.  A token is <<type, string, start, end>>.        *)
(***************************************************************************)
Alphabet == {"a", " ", "\n", "#"}

RECURSIVE SplitLines(_)
SplitLines(t) ==
  IF t = <<>> THEN <<>>
  ELSE LET nl == {i \in 1..Len(t) : t[i] = "\n"} IN
       IF nl = {} THEN <<t>>
       ELSE LET k == CHOOSE i \in nl : \A j \in nl : i <= j IN
            <<SubSeq(t, 1, k)>> \o SplitLines(SubSeq(t, k + 1, Len(t)))

RECURSIVE Join(_)
Join(s) == IF s = <<>> THEN "" ELSE Head(s) \o Join(Tail(s))

RECURSIVE SkipBlanks(_, _)
SkipBlanks(body, col) ==
  IF col < Len(body) /\ body[col + 1] = " " THEN SkipBlanks(body, col + 1) ELSE col

RECURSIVE NameEnd(_, _)
NameEnd(body, col) ==
  IF col < Len(body) /\ body[col + 1] = "a" THEN NameEnd(body, col + 1) ELSE col

RECURSIVE CodeTokens(_, _, _)
CodeTokens(body, row, col) ==
  IF col >= Len(body) THEN <<>>
  ELSE IF body[col + 1] = " " THEN CodeTokens(body, row, col + 1)
  ELSE IF body[col + 1] = "#"
       THEN << <<"COMMENT", Join(SubSeq(body, col + 1, Len(body))), <<row, col>>, <<row, Len(body)>> >> >>
  ELSE LET e == NameEnd(body, col) IN
       << <<"NAME", Join(SubSeq(body, col + 1, e)), <<row, col>>, <<row, e>> >> >>
       \o CodeTokens(body, row, e)

HasNewline(ln) == ln # <<>> /\ ln[Len(ln)] = "\n"

Body(ln) == IF HasNewline(ln) THEN SubSeq(ln, 1, Len(ln) - 1) ELSE ln

IsBlankLine(ln) == SkipBlanks(Body(ln), 0) = Len(Body(ln))

IsCommentLine(ln) == ~IsBlankLine(ln) /\ Body(ln)[SkipBlanks(Body(ln), 0) + 1] = "#"

\* a line of code that starts with blanks would open an indented block
Unindented(t) ==
  \A k \in 1..Len(SplitLines(t)) :
    LET ln == SplitLines(t)[k] IN
    IsBlankLine(ln) \/ IsCommentLine(ln) \/ Body(ln)[1] # " "

LineTokens(ln, row) ==
  LET body == Body(ln)
      n == Len(body)
      eol == IF HasNewline(ln) THEN "\n" ELSE ""
      c0 == SkipBlanks(body, 0)
  IN IF IsBlankLine(ln)
     THEN IF HasNewline(ln) THEN << <<"NL", "\n", <<row, c0>>, <<row, c0 + 1>> >> >> ELSE <<>>
     ELSE IF IsCommentLine(ln)
     THEN << <<"COMMENT", Join(SubSeq(body, c0 + 1, n)), <<row, c0>>, <<row, n>> >>,
             <<"NL", eol, <<row, n>>, <<row, IF HasNewline(ln) THEN n + 1 ELSE n>> >> >>
     ELSE CodeTokens(body, row, 0) \o << <<"NEWLINE", eol, <<row, n>>, <<row, n + 1>> >> >>

RECURSIVE TokenizeLines(_, _)
TokenizeLines(lines, row) ==
  IF lines = <<>> THEN << <<"ENDMARKER", "", <<row, 0>>, <<row, 0>> >> >>
  ELSE IF Len(lines) = 1 /\ IsBlankLine(lines[1]) /\ ~HasNewline(lines[1])
  THEN << <<"ENDMARKER", "", <<row, 0>>, <<row, 0>> >> >>
  ELSE LineTokens(Head(lines), row) \o TokenizeLines(Tail(lines), row + 1)

Tokenize(t) == TokenizeLines(SplitLines(t), 1)

(***************************************************************************)
(* ASTTokens: the token list.                                              *)
(***************************************************************************)
\* _generate_tokens: each tokenizer tuple becomes a Token with its index and its offsets
generate_tokens(toks, offs, text_len) ==
  [k \in 1..Len(toks) |->
     [type |-> toks[k][1], string |-> toks[k][2], start |-> toks[k][3], end |-> toks[k][4],
      index |-> k - 1,
      startpos |-> line_to_offset_in(offs, text_len, toks[k][3][1], toks[k][3][2]),
      endpos |-> line_to_offset_in(offs, text_len, toks[k][4][1], toks[k][4][2])]]

TokenOffsets(tl) == [k \in 1..Len(tl) |-> tl[k].startpos]

\* self._tokens[i], with Python's negative indices
GetItem(i) ==
  LET n == Len(tokens) IN
  IF 0 <= i /\ i < n THEN Ok(i)
  ELSE IF 0 - n <= i /\ i < 0 THEN Ok(n + i)
  ELSE Raise("IndexError")

Tok(i) == tokens[i + 1]

is_non_coding_token(type) == type \in {"COMMENT", "NL"}

ISEOF(type) == type = "ENDMARKER"

match_token(tok, tok_type, tok_str) ==
  Tok(tok).type = tok_type /\ (tok_str = NoStr \/ Tok(tok).string = tok_str)

expect_token(tok, tok_type, tok_str) ==
  IF tok = None THEN Raise("AttributeError")
  ELSE IF ~match_token(tok, tok_type, tok_str) THEN Raise("ValueError")
  ELSE Ok(tok)

\* get_token_from_offset without the "- 1"
get_token_from_offset_no_decrement(offset) == GetItem(bisect(token_offsets, offset))

get_token_from_offset(offset) == GetItem(bisect(token_offsets, offset) - 1)

get_token(lineno, col_offset) == get_token_from_offset(line_to_offset(lineno, col_offset))

RECURSIVE next_loop(_)
next_loop(i) ==
  LET g == GetItem(i) IN
  IF g.exc # "" THEN g
  ELSE IF is_non_coding_token(Tok(g.val).type) THEN next_loop(i + 1)
  ELSE g

next_token(tok, include_extra) ==
  IF tok = None THEN Raise("AttributeError")
  ELSE IF include_extra THEN GetItem(tok + 1)
  ELSE next_loop(tok + 1)

RECURSIVE prev_loop(_)
prev_loop(i) ==
  LET g == GetItem(i) IN
  IF g.exc # "" THEN g
  ELSE IF is_non_coding_token(Tok(g.val).type) THEN prev_loop(i - 1)
  ELSE g

prev_token(tok, include_extra) ==
  IF tok = None THEN Raise("AttributeError")
  ELSE IF include_extra THEN GetItem(tok - 1)
  ELSE prev_loop(tok - 1)

\* the number of iterations after which find_token's loop is reported as not terminating
FindFuel == 2 * Len(tokens) + 2

RECURSIVE find_loop(_, _, _, _, _)
find_loop(t, tok_type, tok_str, reverse, fuel) ==
  IF match_token(t, tok_type, tok_str) \/ ISEOF(Tok(t).type) THEN Ok(t)
  ELSE IF fuel = 0 THEN Raise("NoReturn")
  ELSE LET nxt == IF reverse THEN prev_token(t, TRUE) ELSE next_token(t, TRUE) IN
       IF nxt.exc # "" THEN nxt
       ELSE find_loop(nxt.val, tok_type, tok_str, reverse, fuel - 1)

find_token(start_token, tok_type, tok_str, reverse) ==
  IF start_token = None THEN Raise("AttributeError")
  ELSE find_loop(start_token, tok_type, tok_str, reverse, FindFuel)

\* CodeText.find_token: steps with include_extra false and does not stop at the end marker
RECURSIVE CodeText_find_loop(_, _, _, _, _)
CodeText_find_loop(t, tok_type, tok_str, reverse, fuel) ==
  IF match_token(t, tok_type, tok_str) THEN Ok(t)
  ELSE IF fuel = 0 THEN Raise("NoReturn")
  ELSE LET nxt == IF reverse THEN prev_token(t, FALSE) ELSE next_token(t, FALSE) IN
       IF nxt.exc # "" THEN nxt
       ELSE CodeText_find_loop(nxt.val, tok_type, tok_str, reverse, fuel - 1)

CodeText_find_token(start_token, tok_type, tok_str, reverse) ==
  IF start_token = None THEN Raise("AttributeError")
  ELSE CodeText_find_loop(start_token, tok_type, tok_str, reverse, FindFuel)

RECURSIVE range_loop(_, _, _)
range_loop(i, stop, include_extra) ==
  IF i >= stop THEN <<>>
  ELSE (IF include_extra \/ ~is_non_coding_token(Tok(i).type) THEN <<i>> ELSE <<>>)
       \o range_loop(i + 1, stop, include_extra)

\* token_range with xrange(first_token.index, last_token.index)
token_range_without_last(first, last, include_extra) ==
  IF first = None \/ last = None THEN Raise("AttributeError")
  ELSE OkSeq(range_loop(first, last, include_extra))

token_range(first, last, include_extra) ==
  IF first = None \/ last = None THEN Raise("AttributeError")
  ELSE OkSeq(range_loop(first, last + 1, include_extra))

(***************************************************************************)
(* The token list of a source text, and calls on it.                       *)
(***************************************************************************)
Texts == {t \in UNION {[1..n -> Alphabet] : n \in 0..MaxText} : Unindented(t)}

TokenTypes == {"NAME", "NEWLINE", "COMMENT", "NL", "ENDMARKER"}

TokenStrings == {NoStr, "a", "\n"}

TokenIds == 0..(Len(tokens) - 1)

NoTree ==
  /\ tree = <<>>
  /\ first_token = <<>>
  /\ last_token = <<>>
  /\ pc = "idle"
  /\ stack = <<>>
  /\ done = {}
  /\ runs = 0
  /\ root = <<>>

\* ASTTokens(source_text)
Construct(t, toks) ==
  /\ text = t
  /\ line_offsets = LineOffsets(t)
  /\ tokens = generate_tokens(toks, LineOffsets(t), Len(t))
  /\ token_offsets = TokenOffsets(generate_tokens(toks, LineOffsets(t), Len(t)))
  /\ call = NoCall
  /\ ret = Ok(None)

InitTok == \E t \in Texts : Construct(t, Tokenize(t)) /\ NoTree

\* The navigation methods leave the object as it is: a run makes one call on it.
Fixed == UNCHANGED <<text, line_offsets, tokens, token_offsets, tree, first_token,
                     last_token, pc, stack, done, runs, root>>

\* how far below and beyond the valid lines, columns and offsets the calls are tried
Beyond == 2

LineToOffset ==
  /\ call = NoCall
  /\ \E line \in (0 - Beyond)..(Len(line_offsets) + Beyond),
        column \in (0 - Beyond)..(Len(text) + Beyond) :
       /\ call' = Call("line_to_offset", line, column, "", NoStr, FALSE)
       /\ ret' = OkInt(line_to_offset(line, column))
       /\ Fixed

OffsetToLine ==
  /\ call = NoCall
  /\ \E offset \in (0 - Beyond)..(Len(text) + Beyond) :
       /\ call' = Call("offset_to_line", offset, None, "", NoStr, FALSE)
       /\ ret' = offset_to_line(offset)
       /\ Fixed

GetTokenFromOffset ==
  /\ call = NoCall
  /\ \E offset \in 0..Len(text) :
       /\ call' = Call("get_token_from_offset", offset, None, "", NoStr, FALSE)
       /\ ret' = get_token_from_offset(offset)
       /\ Fixed

GetToken ==
  /\ call = NoCall
  /\ \E lineno \in 1..Len(line_offsets), col_offset \in 0..Len(text) :
       /\ call' = Call("get_token", lineno, col_offset, "", NoStr, FALSE)
       /\ ret' = get_token(lineno, col_offset)
       /\ Fixed

NextToken ==
  /\ call = NoCall
  /\ \E tok \in TokenIds, include_extra \in BOOLEAN :
       /\ call' = Call("next_token", tok, None, "", NoStr, include_extra)
       /\ ret' = next_token(tok, include_extra)
       /\ Fixed

PrevToken ==
  /\ call = NoCall
  /\ \E tok \in TokenIds, include_extra \in BOOLEAN :
       /\ call' = Call("prev_token", tok, None, "", NoStr, include_extra)
       /\ ret' = prev_token(tok, include_extra)
       /\ Fixed

FindToken ==
  /\ call = NoCall
  /\ \E start_token \in TokenIds, tok_type \in TokenTypes, tok_str \in TokenStrings,
        reverse \in BOOLEAN :
       /\ call' = Call("find_token", start_token, None, tok_type, tok_str, reverse)
       /\ ret' = find_token(start_token, tok_type, tok_str, reverse)
       /\ Fixed

CodeTextFindToken ==
  /\ call = NoCall
  /\ \E start_token \in TokenIds, tok_type \in TokenTypes, tok_str \in TokenStrings,
        reverse \in BOOLEAN :
       /\ call' = Call("CodeText.find_token", start_token, None, tok_type, tok_str, reverse)
       /\ ret' = CodeText_find_token(start_token, tok_type, tok_str, reverse)
       /\ Fixed

TokenRange ==
  /\ call = NoCall
  /\ \E first \in TokenIds, last \in TokenIds, include_extra \in BOOLEAN :
       /\ call' = Call("token_range", first, last, "", NoStr, include_extra)
       /\ ret' = token_range(first, last, include_extra)
       /\ Fixed

NextTok ==
  \/ LineToOffset
  \/ OffsetToLine
  \/ GetTokenFromOffset
  \/ GetToken
  \/ NextToken
  \/ PrevToken
  \/ FindToken
  \/ CodeTextFindToken
  \/ TokenRange

SpecTok == InitTok /\ [][NextTok]_vars

(***************************************************************************)
(* The tree.  tree[n] is node n: its class, its position if it has one     *)
(* (lineno, col_offset), and its children as ast.iter_child_nodes lists    *)
(* them.                                                                   *)
(***************************************************************************)
Nodes == 1..Len(tree)

Root == 1

NoNode == 0

\* the classes of ast.expr_context, ast.boolop, ast.operator, ast.unaryop, ast.cmpop
SingletonClasses ==
  {"Load", "Store", "Del", "AugLoad", "AugStore", "Param",
   "And", "Or",
   "Add", "Sub", "Mult", "MatMult", "Div", "Mod", "Pow", "LShift", "RShift", "BitOr",
   "BitXor", "BitAnd", "FloorDiv",
   "Invert", "Not", "UAdd", "USub",
   "Eq", "NotEq", "Lt", "LtE", "Gt", "GtE", "Is", "IsNot", "In", "NotIn"}

\* the subclasses of ast.expr
expr_class_names ==
  {"BoolOp", "NamedExpr", "BinOp", "UnaryOp", "Lambda", "IfExp", "Dict", "Set", "ListComp",
   "SetComp", "DictComp", "GeneratorExp", "Await", "Yield", "YieldFrom", "Compare", "Call",
   "FormattedValue", "JoinedStr", "Constant", "Attribute", "Subscript", "Starred", "Name",
   "List", "Tuple", "Slice", "Num", "Str", "Bytes", "NameConstant", "Ellipsis", "Repr"}

is_expr(n) == tree[n].cls \in expr_class_names

\* the subclasses of ast.stmt
stmt_class_names ==
  {"FunctionDef", "AsyncFunctionDef", "ClassDef", "Return", "Delete", "Assign",
   "AugAssign", "AnnAssign", "For", "AsyncFor", "While", "If", "With", "AsyncWith",
   "Raise", "Try", "Assert", "Import", "ImportFrom", "Global", "Nonlocal", "Expr",
   "Pass", "Break", "Continue", "Print", "Exec", "TryExcept", "TryFinally"}

is_stmt(n) == tree[n].cls \in stmt_class_names

SelectChildren(ch) == SelectSeq(ch, LAMBDA c : tree[c].cls \notin SingletonClasses)

iter_children(n) == SelectChildren(tree[n].children)

FirstChild(n) == IF iter_children(n) = <<>> THEN NoNode ELSE iter_children(n)[1]

LastChild(n) == IF iter_children(n) = <<>> THEN NoNode ELSE iter_children(n)[Len(iter_children(n))]

Reverse(s) == [k \in 1..Len(s) |-> s[Len(s) + 1 - k]]

(***************************************************************************)
(* visit_tree: one iteration of its loop is one step.  A stack entry is    *)
(* (node, par_value, value); pre marks the entries whose value is the      *)
(* sentinel _PREVISIT.                                                     *)
(***************************************************************************)
Entry(n, par_value, value, pre) ==
  [node |-> n, par_value |-> par_value, value |-> value, pre |-> pre]

Top == stack[Len(stack)]

Pop == SubSeq(stack, 1, Len(stack) - 1)

\* stack.extend(children) without reversed(): the last child is popped first
PushChildrenUnreversed(current, par_value, pvalue, post_value) ==
  Pop \o <<Entry(current, par_value, post_value, FALSE)>>
      \o [k \in 1..Len(iter_children(current)) |->
            Entry(iter_children(current)[k], pvalue, None, TRUE)]

\* stack.append((current, par_value, post_value)); stack.extend(reversed(children))
PushChildren(current, par_value, pvalue, post_value) ==
  Pop \o <<Entry(current, par_value, post_value, FALSE)>>
      \o Reverse([k \in 1..Len(iter_children(current)) |->
                    Entry(iter_children(current)[k], pvalue, None, TRUE)])

(***************************************************************************)
(* AssignFirstTokens.                                                      *)
(***************************************************************************)
\* LineNumbers.from_utf8_col turns the utf8 column of a line into its character column;
\* the two are the same number on the ASCII lines of the model
from_utf8_col(line, utf8_column) == utf8_column

get_token_from_utf8(lineno, col_offset) == get_token(lineno, from_utf8_col(lineno, col_offset))

\* returns the token of the node's own position, or None
first_visit_before_children(n) ==
  IF tree[n].has_pos THEN get_token_from_utf8(tree[n].lineno, tree[n].col_offset)
  ELSE Ok(None)

first_visit_default(n, tok) == Ok(tok)

first_visit_listcomp(n, tok) ==
  LET before == prev_token(tok, FALSE) IN
  IF before.exc # "" THEN before ELSE expect_token(before.val, "OP", "[")

first_visit_comprehension(n, tok) == find_token(tok, "NAME", "for", TRUE)

\* self._methods.get(self, node.__class__)(node, token) of AssignFirstTokens
first_method(n, tok) ==
  IF tree[n].cls = "ListComp" THEN first_visit_listcomp(n, tok)
  ELSE IF tree[n].cls = "comprehension" THEN first_visit_comprehension(n, tok)
  ELSE first_visit_default(n, tok)

\* the token of the node when every child, not the first one only, is compared with
\* the node's own token
first_resolved_any_child(n, parent_token, tok) ==
  LET first_child == FirstChild(n)
      starts == {first_token[iter_children(n)[k]] : k \in 1..Len(iter_children(n))}
      earliest == CHOOSE t \in starts : \A u \in starts : t <= u
  IN
  IF tok = None
  THEN Ok(IF first_child # NoNode THEN first_token[first_child] ELSE parent_token)
  ELSE IF first_child = NoNode THEN Ok(tok)
  ELSE IF first_token[first_child] = None THEN Raise("AttributeError")
  ELSE IF earliest < tok THEN Ok(earliest)
  ELSE Ok(tok)

\* the token of the node before the node-specific method adjusts it
first_resolved(n, parent_token, tok) ==
  LET first_child == FirstChild(n) IN
  IF tok = None
  THEN Ok(IF first_child # NoNode THEN first_token[first_child] ELSE parent_token)
  ELSE IF first_child = NoNode THEN Ok(tok)
  ELSE IF first_token[first_child] = None THEN Raise("AttributeError")
  ELSE IF first_token[first_child] < tok THEN Ok(first_token[first_child])
  ELSE Ok(tok)

first_visit_after_children(n, parent_token, tok) ==
  LET r == first_resolved(n, parent_token, tok) IN
  IF r.exc # "" THEN r ELSE first_method(n, r.val)

(***************************************************************************)
(* AssignLastTokens.                                                       *)
(***************************************************************************)
opening_brackets == {"(", "[", "{"}

\* _matching_pairs with ")" as the counterpart of every opening bracket
matching_pairs_round(string) == ")"

matching_pairs(string) == IF string = "(" THEN ")" ELSE IF string = "[" THEN "]" ELSE "}"

RECURSIVE non_child_loop(_, _, _, _)
non_child_loop(tok, children, last, acc) ==
  IF children = <<>>
  THEN LET r == token_range(tok, last, FALSE) IN
       IF r.exc # "" THEN r ELSE OkSeq(acc \o r.seq)
  ELSE LET n == Head(children)
           before == prev_token(first_token[n], FALSE)
           r == IF before.exc # "" THEN before ELSE token_range(tok, before.val, FALSE)
       IN IF r.exc # "" THEN r
          ELSE IF last_token[n] = None \/ last = None THEN Raise("AttributeError")
          ELSE IF last_token[n] >= last THEN OkSeq(acc \o r.seq)
          ELSE LET after == next_token(last_token[n], FALSE) IN
               IF after.exc # "" THEN after
               ELSE non_child_loop(after.val, Tail(children), last, acc \o r.seq)

iter_non_child_tokens(first, last, n) == non_child_loop(first, iter_children(n), last, <<>>)

\* the list tokens_to_match after the scan of the non-child tokens
RECURSIVE match_loop(_, _)
match_loop(toks, tokens_to_match) ==
  IF toks = <<>> THEN tokens_to_match
  ELSE LET tok == Tok(Head(toks)) IN
       IF /\ tokens_to_match # <<>>
          /\ tok.type = "OP"
          /\ tok.string = tokens_to_match[Len(tokens_to_match)]
       THEN match_loop(Tail(toks), SubSeq(tokens_to_match, 1, Len(tokens_to_match) - 1))
       ELSE IF tok.type = "OP" /\ tok.string \in opening_brackets
       THEN match_loop(Tail(toks), Append(tokens_to_match, matching_pairs(tok.string)))
       ELSE match_loop(Tail(toks), tokens_to_match)

\* extend_loop without the expect_token
RECURSIVE extend_loop_unchecked(_, _)
extend_loop_unchecked(last, tokens_to_match) ==
  IF tokens_to_match = <<>> THEN Ok(last)
  ELSE LET nxt == next_token(last, FALSE) IN
       IF nxt.exc # "" THEN nxt
       ELSE extend_loop_unchecked(nxt.val, SubSeq(tokens_to_match, 1, Len(tokens_to_match) - 1))

\* while tokens_to_match: last = next_token(last); expect_token(last, *tokens_to_match.pop())
RECURSIVE extend_loop(_, _)
extend_loop(last, tokens_to_match) ==
  IF tokens_to_match = <<>> THEN Ok(last)
  ELSE LET nxt == next_token(last, FALSE) IN
       IF nxt.exc # "" THEN nxt
       ELSE LET e == expect_token(nxt.val, "OP", tokens_to_match[Len(tokens_to_match)]) IN
            IF e.exc # "" THEN e
            ELSE extend_loop(nxt.val, SubSeq(tokens_to_match, 1, Len(tokens_to_match) - 1))

find_last_in_line(start_token) ==
  LET found == find_token(start_token, "NEWLINE", NoStr, FALSE)
      newline == IF found.exc = "IndexError"
                 THEN find_token(start_token, "ENDMARKER", NoStr, FALSE)
                 ELSE found
  IN IF newline.exc # "" THEN newline ELSE prev_token(newline.val, FALSE)

last_visit_default(n, last_child, last) == Ok(last)

handle_attr(n, last_child, last) ==
  LET dot == next_token(last, FALSE) IN
  IF dot.exc # "" THEN dot
  ELSE LET name == next_token(dot.val, FALSE) IN
       IF name.exc # "" THEN name
       ELSE IF expect_token(dot.val, "OP", ".").exc # "" THEN expect_token(dot.val, "OP", ".")
       ELSE expect_token(name.val, "NAME", NoStr)

visit_call(n, last_child, last) == find_token(last, "OP", ")", FALSE)

visit_subscript(n, last_child, last) == find_token(last, "OP", "]", FALSE)

visit_tuple(n, last_child, last) ==
  LET maybe_comma == next_token(last, FALSE) IN
  IF maybe_comma.exc = "IndexError" THEN Ok(last)
  ELSE IF maybe_comma.exc # "" THEN maybe_comma
  ELSE IF match_token(maybe_comma.val, "OP", ",") THEN maybe_comma
  ELSE Ok(last)

RECURSIVE num_loop(_)
num_loop(last) ==
  IF match_token(last, "OP", NoStr)
  THEN LET nxt == next_token(last, FALSE) IN
       IF nxt.exc # "" THEN nxt ELSE num_loop(nxt.val)
  ELSE Ok(last)

visit_num(n, last_child, last) ==
  IF last = None THEN Raise("AttributeError") ELSE num_loop(last)

\* self._methods.get(self, node.__class__)(node, child, last) of AssignLastTokens
last_method(n, last_child, last) ==
  IF tree[n].cls \in {"Attribute", "AssignAttr", "DelAttr"} THEN handle_attr(n, last_child, last)
  ELSE IF tree[n].cls = "Call" THEN visit_call(n, last_child, last)
  ELSE IF tree[n].cls = "Subscript" THEN visit_subscript(n, last_child, last)
  ELSE IF tree[n].cls = "Tuple" THEN visit_tuple(n, last_child, last)
  ELSE IF tree[n].cls = "Num" THEN visit_num(n, last_child, last)
  ELSE last_visit_default(n, last_child, last)

\* last_matched that starts from the last_token the node already has, when it has one
last_matched_from_old_mark(n) ==
  LET child == LastChild(n)
      first == first_token[n]
      last == IF n \in DOMAIN last_token THEN last_token[n]
              ELSE IF child # NoNode THEN last_token[child] ELSE first
      gap == iter_non_child_tokens(first, last, n)
  IN IF gap.exc # "" THEN gap ELSE extend_loop(last, match_loop(gap.seq, <<>>))

\* the candidate last token once the unclosed brackets of the node are matched
last_matched(n) ==
  LET child == LastChild(n)
      first == first_token[n]
      last == IF child # NoNode THEN last_token[child] ELSE first
      gap == iter_non_child_tokens(first, last, n)
  IN IF gap.exc # "" THEN gap ELSE extend_loop(last, match_loop(gap.seq, <<>>))

last_visit_after_children(n) ==
  LET m == last_matched(n)
      s == IF m.exc = "" /\ is_stmt(n) THEN find_last_in_line(m.val) ELSE m
  IN IF s.exc # "" THEN s ELSE last_method(n, LastChild(n), s.val)

(***************************************************************************)
(* Text extraction.                                                        *)
(***************************************************************************)
\* text.rfind('\n', 0, start)
rfind_newline(start) ==
  LET at == {i \in 0..(Min(start, Len(text)) - 1) : text[i + 1] = "\n"} IN
  IF at = {} THEN -1 ELSE CHOOSE i \in at : \A j \in at : j <= i

\* text[start : end], for 0 <= start and 0 <= end
Slice(start, end) ==
  IF Min(end, Len(text)) <= start THEN <<>> ELSE SubSeq(text, start + 1, Min(end, Len(text)))

has_newline_token(toks) == \E k \in 1..Len(toks) : match_token(toks[k], "NEWLINE", NoStr)

get_tokens(n, include_extra) ==
  IF n \notin DOMAIN last_token THEN Raise("AttributeError")
  ELSE token_range(first_token[n], last_token[n], include_extra)

\* the node classes without lineno on Python 3.9 and later
unsupported_unmarked_types == {"arguments", "withitem"}

\* supports_unmarked(node) for the node of an ast tree built by Python 3.9 or later
supports_unmarked(n) == tree[n].cls \notin unsupported_unmarked_types

\* LineNumbers.utf8_to_offset: the offset of a line and a utf8 column
utf8_to_offset(line, utf8_column) == line_to_offset(line, from_utf8_col(line, utf8_column))

\* util.last_stmt: the last statement of the node's block, and of that statement's block,
\* and so on; the node itself when it holds no statement
RECURSIVE last_stmt(_)
last_stmt(n) ==
  LET child_stmts == SelectSeq(iter_children(n), LAMBDA c : is_stmt(c)) IN
  IF child_stmts # <<>> THEN last_stmt(child_stmts[Len(child_stmts)]) ELSE n

get_text_range_unmarked(n) ==
  IF tree[n].cls = "Module" THEN OkRange(0, Len(text))
  ELSE IF ~tree[n].has_pos THEN OkRange(0, 0)
  ELSE LET decorators == tree[n].decorator_list
           start_node == IF decorators # <<>> THEN decorators[1] ELSE n
           start == utf8_to_offset(tree[start_node].lineno, tree[start_node].col_offset)
           end_node == last_stmt(n)
       IN OkRange(IF tree[last_stmt(n)].lineno # tree[n].lineno
                  THEN rfind_newline(start) + 1
                  ELSE start,
                  utf8_to_offset(tree[end_node].end_lineno, tree[end_node].end_col_offset))

\* get_text_range when it need not set up the token list: self._tokens is None (the
\* empty sequence here; a token list holds at least the ENDMARKER) and the node supports
\* unmarked extraction, or the token list is there and init_tokens() returns at once
get_text_range(n) ==
  IF tokens = <<>> /\ supports_unmarked(n) THEN get_text_range_unmarked(n)
  ELSE IF n \notin DOMAIN first_token THEN OkRange(0, 0)
  ELSE IF first_token[n] = None THEN Raise("AttributeError")
  ELSE LET toks == get_tokens(n, FALSE) IN
       IF toks.exc # "" THEN toks
       ELSE LET start == IF has_newline_token(toks.seq)
                         THEN rfind_newline(Tok(first_token[n]).startpos) + 1
                         ELSE Tok(first_token[n]).startpos
            IN IF last_token[n] = None THEN Raise("AttributeError")
               ELSE OkRange(start, Tok(last_token[n]).endpos)

get_text(n) ==
  LET r == get_text_range(n) IN
  IF r.exc # "" THEN r ELSE OkStr(Slice(r.seq[1], r.seq[2]))

has_nl_token(toks) == \E k \in 1..Len(toks) : match_token(toks[k], "NL", NoStr)

\* node.first_token[:2] in _matching_pairs and
\* node.last_token[:2] == _matching_pairs[node.first_token[:2]]
is_bracketed(first, last) ==
  /\ Tok(first).type = "OP"
  /\ Tok(first).string \in opening_brackets
  /\ Tok(last).type = "OP"
  /\ Tok(last).string = matching_pairs(Tok(first).string)

\* CodeText.get_text
CodeText_get_text(n) ==
  IF n \notin DOMAIN first_token THEN Ok(None)
  ELSE LET toks == get_tokens(n, FALSE)
           extra == get_tokens(n, TRUE)
       IN IF toks.exc # "" THEN toks
          ELSE IF has_newline_token(toks.seq)
          THEN OkStr(Slice(rfind_newline(Tok(first_token[n]).startpos) + 1,
                           Tok(last_token[n]).endpos))
          ELSE IF /\ is_expr(n)
                  /\ has_nl_token(extra.seq)
                  /\ ~is_bracketed(first_token[n], last_token[n])
          THEN OkStr(<<"(">> \o Slice(Tok(first_token[n]).startpos, Tok(last_token[n]).endpos)
                            \o <<")">>)
          ELSE OkStr(Slice(Tok(first_token[n]).startpos, Tok(last_token[n]).endpos))

(***************************************************************************)
(* Source texts with their tokens (tokenize.generate_tokens) and their     *)
(* trees (ast.parse).                                                      *)
(***************************************************************************)
Scenarios == <<
  \* empty: ""
  [src |-> <<>>,
   legacy |-> FALSE,
   toks |-> <<
     <<"ENDMARKER", "", <<1, 0>>, <<1, 0>>>>
   >>,
   tree |-> <<
     [cls |-> "Module", has_pos |-> FALSE, lineno |-> 0, col_offset |-> 0,
      end_lineno |-> 0, end_col_offset |-> 0, decorator_list |-> <<>>,
      children |-> <<>>]
   >>],
  \* name: "a"
  [src |-> <<"a">>,
   legacy |-> FALSE,
   toks |-> <<
     <<"NAME", "a", <<1, 0>>, <<1, 1>>>>,
     <<"NEWLINE", "", <<1, 1>>, <<1, 2>>>>,
     <<"ENDMARKER", "", <<2, 0>>, <<2, 0>>>>
   >>,
   tree |-> <<
     [cls |-> "Module", has_pos |-> FALSE, lineno |-> 0, col_offset |-> 0,
      end_lineno |-> 0, end_col_offset |-> 0, decorator_list |-> <<>>,
      children |-> <<2>>],
     [cls |-> "Expr", has_pos |-> TRUE, lineno |-> 1, col_offset |-> 0,
      end_lineno |-> 1, end_col_offset |-> 1, decorator_list |-> <<>>,
      children |-> <<3>>],
     [cls |-> "Name", has_pos |-> TRUE, lineno |-> 1, col_offset |-> 0,
      end_lineno |-> 1, end_col_offset |-> 1, decorator_list |-> <<>>,
      children |-> <<4>>],
     [cls |-> "Load", has_pos |-> FALSE, lineno |-> 0, col_offset |-> 0,
      end_lineno |-> 0, end_col_offset |-> 0, decorator_list |-> <<>>,
      children |-> <<>>]
   >>],
  \* call: "f(a)"
  [src |-> <<"f", "(", "a", ")">>,
   legacy |-> FALSE,
   toks |-> <<
     <<"NAME", "f", <<1, 0>>, <<1, 1>>>>,
     <<"OP", "(", <<1, 1>>, <<1, 2>>>>,
     <<"NAME", "a", <<1, 2>>, <<1, 3>>>>,
     <<"OP", ")", <<1, 3>>, <<1, 4>>>>,
     <<"NEWLINE", "", <<1, 4>>, <<1, 5>>>>,
     <<"ENDMARKER", "", <<2, 0>>, <<2, 0>>>>
   >>,
   tree |-> <<
     [cls |-> "Module", has_pos |-> FALSE, lineno |-> 0, col_offset |-> 0,
      end_lineno |-> 0, end_col_offset |-> 0, decorator_list |-> <<>>,
      children |-> <<2>>],
     [cls |-> "Expr", has_pos |-> TRUE, lineno |-> 1, col_offset |-> 0,
      end_lineno |-> 1, end_col_offset |-> 4, decorator_list |-> <<>>,
      children |-> <<3>>],
     [cls |-> "Call", has_pos |-> TRUE, lineno |-> 1, col_offset |-> 0,
      end_lineno |-> 1, end_col_offset |-> 4, decorator_list |-> <<>>,
      children |-> <<4, 6>>],
     [cls |-> "Name", has_pos |-> TRUE, lineno |-> 1, col_offset |-> 0,
      end_lineno |-> 1, end_col_offset |-> 1, decorator_list |-> <<>>,
      children |-> <<5>>],
     [cls |-> "Load", has_pos |-> FALSE, lineno |-> 0, col_offset |-> 0,
      end_lineno |-> 0, end_col_offset |-> 0, decorator_list |-> <<>>,
      children |-> <<>>],
     [cls |-> "Name", has_pos |-> TRUE, lineno |-> 1, col_offset |-> 2,
      end_lineno |-> 1, end_col_offset |-> 3, decorator_list |-> <<>>,
      children |-> <<7>>],
     [cls |-> "Load", has_pos |-> FALSE, lineno |-> 0, col_offset |-> 0,
      end_lineno |-> 0, end_col_offset |-> 0, decorator_list |-> <<>>,
      children |-> <<>>]
   >>],
  \* call0: "f()\n"
  [src |-> <<"f", "(", ")", "\n">>,
   legacy |-> FALSE,
   toks |-> <<
     <<"NAME", "f", <<1, 0>>, <<1, 1>>>>,
     <<"OP", "(", <<1, 1>>, <<1, 2>>>>,
     <<"OP", ")", <<1, 2>>, <<1, 3>>>>,
     <<"NEWLINE", "\n", <<1, 3>>, <<1, 4>>>>,
     <<"ENDMARKER", "", <<2, 0>>, <<2, 0>>>>
   >>,
   tree |-> <<
     [cls |-> "Module", has_pos |-> FALSE, lineno |-> 0, col_offset |-> 0,
      end_lineno |-> 0, end_col_offset |-> 0, decorator_list |-> <<>>,
      children |-> <<2>>],
     [cls |-> "Expr", has_pos |-> TRUE, lineno |-> 1, col_offset |-> 0,
      end_lineno |-> 1, end_col_offset |-> 3, decorator_list |-> <<>>,
      children |-> <<3>>],
     [cls |-> "Call", has_pos |-> TRUE, lineno |-> 1, col_offset |-> 0,
      end_lineno |-> 1, end_col_offset |-> 3, decorator_list |-> <<>>,
      children |-> <<4>>],
     [cls |-> "Name", has_pos |-> TRUE, lineno |-> 1, col_offset |-> 0,
      end_lineno |-> 1, end_col_offset |-> 1, decorator_list |-> <<>>,
      children |-> <<5>>],
     [cls |-> "Load", has_pos |-> FALSE, lineno |-> 0, col_offset |-> 0,
      end_lineno |-> 0, end_col_offset |-> 0, decorator_list |-> <<>>,
      children |-> <<>>]
   >>],
  \* attr: "a.b"
  [src |-> <<"a", ".", "b">>,
   legacy |-> FALSE,
   toks |-> <<
     <<"NAME", "a", <<1, 0>>, <<1, 1>>>>,
     <<"OP", ".", <<1, 1>>, <<1, 2>>>>,
     <<"NAME", "b", <<1, 2>>, <<1, 3>>>>,
     <<"NEWLINE", "", <<1, 3>>, <<1, 4>>>>,
     <<"ENDMARKER", "", <<2, 0>>, <<2, 0>>>>
   >>,
   tree |-> <<
     [cls |-> "Module", has_pos |-> FALSE, lineno |-> 0, col_offset |-> 0,
      end_lineno |-> 0, end_col_offset |-> 0, decorator_list |-> <<>>,
      children |-> <<2>>],
     [cls |-> "Expr", has_pos |-> TRUE, lineno |-> 1, col_offset |-> 0,
      end_lineno |-> 1, end_col_offset |-> 3, decorator_list |-> <<>>,
      children |-> <<3>>],
     [cls |-> "Attribute", has_pos |-> TRUE, lineno |-> 1, col_offset |-> 0,
      end_lineno |-> 1, end_col_offset |-> 3, decorator_list |-> <<>>,
      children |-> <<4, 6>>],
     [cls |-> "Name", has_pos |-> TRUE, lineno |-> 1, col_offset |-> 0,
      end_lineno |-> 1, end_col_offset |-> 1, decorator_list |-> <<>>,
      children |-> <<5>>],
     [cls |-> "Load", has_pos |-> FALSE, lineno |-> 0, col_offset |-> 0,
      end_lineno |-> 0, end_col_offset |-> 0, decorator_list |-> <<>>,
      children |-> <<>>],
     [cls |-> "Load", has_pos |-> FALSE, lineno |-> 0, col_offset |-> 0,
      end_lineno |-> 0, end_col_offset |-> 0, decorator_list |-> <<>>,
      children |-> <<>>]
   >>],
  \* paren_attr: "(a).b"
  [src |-> <<"(", "a", ")", ".", "b">>,
   legacy |-> FALSE,
   toks |-> <<
     <<"OP", "(", <<1, 0>>, <<1, 1>>>>,
     <<"NAME", "a", <<1, 1>>, <<1, 2>>>>,
     <<"OP", ")", <<1, 2>>, <<1, 3>>>>,
     <<"OP", ".", <<1, 3>>, <<1, 4>>>>,
     <<"NAME", "b", <<1, 4>>, <<1, 5>>>>,
     <<"NEWLINE", "", <<1, 5>>, <<1, 6>>>>,
     <<"ENDMARKER", "", <<2, 0>>, <<2, 0>>>>
   >>,
   tree |-> <<
     [cls |-> "Module", has_pos |-> FALSE, lineno |-> 0, col_offset |-> 0,
      end_lineno |-> 0, end_col_offset |-> 0, decorator_list |-> <<>>,
      children |-> <<2>>],
     [cls |-> "Expr", has_pos |-> TRUE, lineno |-> 1, col_offset |-> 0,
      end_lineno |-> 1, end_col_offset |-> 5, decorator_list |-> <<>>,
      children |-> <<3>>],
     [cls |-> "Attribute", has_pos |-> TRUE, lineno |-> 1, col_offset |-> 0,
      end_lineno |-> 1, end_col_offset |-> 5, decorator_list |-> <<>>,
      children |-> <<4, 6>>],
     [cls |-> "Name", has_pos |-> TRUE, lineno |-> 1, col_offset |-> 1,
      end_lineno |-> 1, end_col_offset |-> 2, decorator_list |-> <<>>,
      children |-> <<5>>],
     [cls |-> "Load", has_pos |-> FALSE, lineno |-> 0, col_offset |-> 0,
      end_lineno |-> 0, end_col_offset |-> 0, decorator_list |-> <<>>,
      children |-> <<>>],
     [cls |-> "Load", has_pos |-> FALSE, lineno |-> 0, col_offset |-> 0,
      end_lineno |-> 0, end_col_offset |-> 0, decorator_list |-> <<>>,
      children |-> <<>>]
   >>],
  \* subscript: "a[0]"
  [src |-> <<"a", "[", "0", "]">>,
   legacy |-> FALSE,
   toks |-> <<
     <<"NAME", "a", <<1, 0>>, <<1, 1>>>>,
     <<"OP", "[", <<1, 1>>, <<1, 2>>>>,
     <<"NUMBER", "0", <<1, 2>>, <<1, 3>>>>,
     <<"OP", "]", <<1, 3>>, <<1, 4>>>>,
     <<"NEWLINE", "", <<1, 4>>, <<1, 5>>>>,
     <<"ENDMARKER", "", <<2, 0>>, <<2, 0>>>>
   >>,
   tree |-> <<
     [cls |-> "Module", has_pos |-> FALSE, lineno |-> 0, col_offset |-> 0,
      end_lineno |-> 0, end_col_offset |-> 0, decorator_list |-> <<>>,
      children |-> <<2>>],
     [cls |-> "Expr", has_pos |-> TRUE, lineno |-> 1, col_offset |-> 0,
      end_lineno |-> 1, end_col_offset |-> 4, decorator_list |-> <<>>,
      children |-> <<3>>],
     [cls |-> "Subscript", has_pos |-> TRUE, lineno |-> 1, col_offset |-> 0,
      end_lineno |-> 1, end_col_offset |-> 4, decorator_list |-> <<>>,
      children |-> <<4, 6, 7>>],
     [cls |-> "Name", has_pos |-> TRUE, lineno |-> 1, col_offset |-> 0,
      end_lineno |-> 1, end_col_offset |-> 1, decorator_list |-> <<>>,
      children |-> <<5>>],
     [cls |-> "Load", has_pos |-> FALSE, lineno |-> 0, col_offset |-> 0,
      end_lineno |-> 0, end_col_offset |-> 0, decorator_list |-> <<>>,
      children |-> <<>>],
     [cls |-> "Constant", has_pos |-> TRUE, lineno |-> 1, col_offset |-> 2,
      end_lineno |-> 1, end_col_offset |-> 3, decorator_list |-> <<>>,
      children |-> <<>>],
     [cls |-> "Load", has_pos |-> FALSE, lineno |-> 0, col_offset |-> 0,
      end_lineno |-> 0, end_col_offset |-> 0, decorator_list |-> <<>>,
      children |-> <<>>]
   >>],
  \* semicolons: "a; b(c); d # e\n"
  [src |-> <<"a", ";", " ", "b", "(", "c", ")", ";", " ", "d", " ", "#", " ", "e", "\n">>,
   legacy |-> FALSE,
   toks |-> <<
     <<"NAME", "a", <<1, 0>>, <<1, 1>>>>,
     <<"OP", ";", <<1, 1>>, <<1, 2>>>>,
     <<"NAME", "b", <<1, 3>>, <<1, 4>>>>,
     <<"OP", "(", <<1, 4>>, <<1, 5>>>>,
     <<"NAME", "c", <<1, 5>>, <<1, 6>>>>,
     <<"OP", ")", <<1, 6>>, <<1, 7>>>>,
     <<"OP", ";", <<1, 7>>, <<1, 8>>>>,
     <<"NAME", "d", <<1, 9>>, <<1, 10>>>>,
     <<"COMMENT", "# e", <<1, 11>>, <<1, 14>>>>,
     <<"NEWLINE", "\n", <<1, 14>>, <<1, 15>>>>,
     <<"ENDMARKER", "", <<2, 0>>, <<2, 0>>>>
   >>,
   tree |-> <<
     [cls |-> "Module", has_pos |-> FALSE, lineno |-> 0, col_offset |-> 0,
      end_lineno |-> 0, end_col_offset |-> 0, decorator_list |-> <<>>,
      children |-> <<2, 5, 11>>],
     [cls |-> "Expr", has_pos |-> TRUE, lineno |-> 1, col_offset |-> 0,
      end_lineno |-> 1, end_col_offset |-> 1, decorator_list |-> <<>>,
      children |-> <<3>>],
     [cls |-> "Name", has_pos |-> TRUE, lineno |-> 1, col_offset |-> 0,
      end_lineno |-> 1, end_col_offset |-> 1, decorator_list |-> <<>>,
      children |-> <<4>>],
     [cls |-> "Load", has_pos |-> FALSE, lineno |-> 0, col_offset |-> 0,
      end_lineno |-> 0, end_col_offset |-> 0, decorator_list |-> <<>>,
      children |-> <<>>],
     [cls |-> "Expr", has_pos |-> TRUE, lineno |-> 1, col_offset |-> 3,
      end_lineno |-> 1, end_col_offset |-> 7, decorator_list |-> <<>>,
      children |-> <<6>>],
     [cls |-> "Call", has_pos |-> TRUE, lineno |-> 1, col_offset |-> 3,
      end_lineno |-> 1, end_col_offset |-> 7, decorator_list |-> <<>>,
      children |-> <<7, 9>>],
     [cls |-> "Name", has_pos |-> TRUE, lineno |-> 1, col_offset |-> 3,
      end_lineno |-> 1, end_col_offset |-> 4, decorator_list |-> <<>>,
      children |-> <<8>>],
     [cls |-> "Load", has_pos |-> FALSE, lineno |-> 0, col_offset |-> 0,
      end_lineno |-> 0, end_col_offset |-> 0, decorator_list |-> <<>>,
      children |-> <<>>],
     [cls |-> "Name", has_pos |-> TRUE, lineno |-> 1, col_offset |-> 5,
      end_lineno |-> 1, end_col_offset |-> 6, decorator_list |-> <<>>,
      children |-> <<10>>],
     [cls |-> "Load", has_pos |-> FALSE, lineno |-> 0, col_offset |-> 0,
      end_lineno |-> 0, end_col_offset |-> 0, decorator_list |-> <<>>,
      children |-> <<>>],
     [cls |-> "Expr", has_pos |-> TRUE, lineno |-> 1, col_offset |-> 9,
      end_lineno |-> 1, end_col_offset |-> 10, decorator_list |-> <<>>,
      children |-> <<12>>],
     [cls |-> "Name", has_pos |-> TRUE, lineno |-> 1, col_offset |-> 9,
      end_lineno |-> 1, end_col_offset |-> 10, decorator_list |-> <<>>,
      children |-> <<13>>],
     [cls |-> "Load", has_pos |-> FALSE, lineno |-> 0, col_offset |-> 0,
      end_lineno |-> 0, end_col_offset |-> 0, decorator_list |-> <<>>,
      children |-> <<>>]
   >>],
  \* tuple1: "(a,)"
  [src |-> <<"(", "a", ",", ")">>,
   legacy |-> FALSE,
   toks |-> <<
     <<"OP", "(", <<1, 0>>, <<1, 1>>>>,
     <<"NAME", "a", <<1, 1>>, <<1, 2>>>>,
     <<"OP", ",", <<1, 2>>, <<1, 3>>>>,
     <<"OP", ")", <<1, 3>>, <<1, 4>>>>,
     <<"NEWLINE", "", <<1, 4>>, <<1, 5>>>>,
     <<"ENDMARKER", "", <<2, 0>>, <<2, 0>>>>
   >>,
   tree |-> <<
     [cls |-> "Module", has_pos |-> FALSE, lineno |-> 0, col_offset |-> 0,
      end_lineno |-> 0, end_col_offset |-> 0, decorator_list |-> <<>>,
      children |-> <<2>>],
     [cls |-> "Expr", has_pos |-> TRUE, lineno |-> 1, col_offset |-> 0,
      end_lineno |-> 1, end_col_offset |-> 4, decorator_list |-> <<>>,
      children |-> <<3>>],
     [cls |-> "Tuple", has_pos |-> TRUE, lineno |-> 1, col_offset |-> 0,
      end_lineno |-> 1, end_col_offset |-> 4, decorator_list |-> <<>>,
      children |-> <<4, 6>>],
     [cls |-> "Name", has_pos |-> TRUE, lineno |-> 1, col_offset |-> 1,
      end_lineno |-> 1, end_col_offset |-> 2, decorator_list |-> <<>>,
      children |-> <<5>>],
     [cls |-> "Load", has_pos |-> FALSE, lineno |-> 0, col_offset |-> 0,
      end_lineno |-> 0, end_col_offset |-> 0, decorator_list |-> <<>>,
      children |-> <<>>],
     [cls |-> "Load", has_pos |-> FALSE, lineno |-> 0, col_offset |-> 0,
      end_lineno |-> 0, end_col_offset |-> 0, decorator_list |-> <<>>,
      children |-> <<>>]
   >>],
  \* tuple_bare: "a, b\n"
  [src |-> <<"a", ",", " ", "b", "\n">>,
   legacy |-> FALSE,
   toks |-> <<
     <<"NAME", "a", <<1, 0>>, <<1, 1>>>>,
     <<"OP", ",", <<1, 1>>, <<1, 2>>>>,
     <<"NAME", "b", <<1, 3>>, <<1, 4>>>>,
     <<"NEWLINE", "\n", <<1, 4>>, <<1, 5>>>>,
     <<"ENDMARKER", "", <<2, 0>>, <<2, 0>>>>
   >>,
   tree |-> <<
     [cls |-> "Module", has_pos |-> FALSE, lineno |-> 0, col_offset |-> 0,
      end_lineno |-> 0, end_col_offset |-> 0, decorator_list |-> <<>>,
      children |-> <<2>>],
     [cls |-> "Expr", has_pos |-> TRUE, lineno |-> 1, col_offset |-> 0,
      end_lineno |-> 1, end_col_offset |-> 4, decorator_list |-> <<>>,
      children |-> <<3>>],
     [cls |-> "Tuple", has_pos |-> TRUE, lineno |-> 1, col_offset |-> 0,
      end_lineno |-> 1, end_col_offset |-> 4, decorator_list |-> <<>>,
      children |-> <<4, 6, 8>>],
     [cls |-> "Name", has_pos |-> TRUE, lineno |-> 1, col_offset |-> 0,
      end_lineno |-> 1, end_col_offset |-> 1, decorator_list |-> <<>>,
      children |-> <<5>>],
     [cls |-> "Load", has_pos |-> FALSE, lineno |-> 0, col_offset |-> 0,
      end_lineno |-> 0, end_col_offset |-> 0, decorator_list |-> <<>>,
      children |-> <<>>],
     [cls |-> "Name", has_pos |-> TRUE, lineno |-> 1, col_offset |-> 3,
      end_lineno |-> 1, end_col_offset |-> 4, decorator_list |-> <<>>,
      children |-> <<7>>],
     [cls |-> "Load", has_pos |-> FALSE, lineno |-> 0, col_offset |-> 0,
      end_lineno |-> 0, end_col_offset |-> 0, decorator_list |-> <<>>,
      children |-> <<>>],
     [cls |-> "Load", has_pos |-> FALSE, lineno |-> 0, col_offset |-> 0,
      end_lineno |-> 0, end_col_offset |-> 0, decorator_list |-> <<>>,
      children |-> <<>>]
   >>],
  \* tuple_nested: "(a, b),\n"
  [src |-> <<"(", "a", ",", " ", "b", ")", ",", "\n">>,
   legacy |-> FALSE,
   toks |-> <<
     <<"OP", "(", <<1, 0>>, <<1, 1>>>>,
     <<"NAME", "a", <<1, 1>>, <<1, 2>>>>,
     <<"OP", ",", <<1, 2>>, <<1, 3>>>>,
     <<"NAME", "b", <<1, 4>>, <<1, 5>>>>,
     <<"OP", ")", <<1, 5>>, <<1, 6>>>>,
     <<"OP", ",", <<1, 6>>, <<1, 7>>>>,
     <<"NEWLINE", "\n", <<1, 7>>, <<1, 8>>>>,
     <<"ENDMARKER", "", <<2, 0>>, <<2, 0>>>>
   >>,
   tree |-> <<
     [cls |-> "Module", has_pos |-> FALSE, lineno |-> 0, col_offset |-> 0,
      end_lineno |-> 0, end_col_offset |-> 0, decorator_list |-> <<>>,
      children |-> <<2>>],
     [cls |-> "Expr", has_pos |-> TRUE, lineno |-> 1, col_offset |-> 0,
      end_lineno |-> 1, end_col_offset |-> 7, decorator_list |-> <<>>,
      children |-> <<3>>],
     [cls |-> "Tuple", has_pos |-> TRUE, lineno |-> 1, col_offset |-> 0,
      end_lineno |-> 1, end_col_offset |-> 7, decorator_list |-> <<>>,
      children |-> <<4, 10>>],
     [cls |-> "Tuple", has_pos |-> TRUE, lineno |-> 1, col_offset |-> 0,
      end_lineno |-> 1, end_col_offset |-> 6, decorator_list |-> <<>>,
      children |-> <<5, 7, 9>>],
     [cls |-> "Name", has_pos |-> TRUE, lineno |-> 1, col_offset |-> 1,
      end_lineno |-> 1, end_col_offset |-> 2, decorator_list |-> <<>>,
      children |-> <<6>>],
     [cls |-> "Load", has_pos |-> FALSE, lineno |-> 0, col_offset |-> 0,
      end_lineno |-> 0, end_col_offset |-> 0, decorator_list |-> <<>>,
      children |-> <<>>],
     [cls |-> "Name", has_pos |-> TRUE, lineno |-> 1, col_offset |-> 4,
      end_lineno |-> 1, end_col_offset |-> 5, decorator_list |-> <<>>,
      children |-> <<8>>],
     [cls |-> "Load", has_pos |-> FALSE, lineno |-> 0, col_offset |-> 0,
      end_lineno |-> 0, end_col_offset |-> 0, decorator_list |-> <<>>,
      children |-> <<>>],
     [cls |-> "Load", has_pos |-> FALSE, lineno |-> 0, col_offset |-> 0,
      end_lineno |-> 0, end_col_offset |-> 0, decorator_list |-> <<>>,
      children |-> <<>>],
     [cls |-> "Load", has_pos |-> FALSE, lineno |-> 0, col_offset |-> 0,
      end_lineno |-> 0, end_col_offset |-> 0, decorator_list |-> <<>>,
      children |-> <<>>]
   >>],
  \* tuple_lines: "(a,\nb)"
  [src |-> <<"(", "a", ",", "\n", "b", ")">>,
   legacy |-> FALSE,
   toks |-> <<
     <<"OP", "(", <<1, 0>>, <<1, 1>>>>,
     <<"NAME", "a", <<1, 1>>, <<1, 2>>>>,
     <<"OP", ",", <<1, 2>>, <<1, 3>>>>,
     <<"NL", "\n", <<1, 3>>, <<1, 4>>>>,
     <<"NAME", "b", <<2, 0>>, <<2, 1>>>>,
     <<"OP", ")", <<2, 1>>, <<2, 2>>>>,
     <<"NEWLINE", "", <<2, 2>>, <<2, 3>>>>,
     <<"ENDMARKER", "", <<3, 0>>, <<3, 0>>>>
   >>,
   tree |-> <<
     [cls |-> "Module", has_pos |-> FALSE, lineno |-> 0, col_offset |-> 0,
      end_lineno |-> 0, end_col_offset |-> 0, decorator_list |-> <<>>,
      children |-> <<2>>],
     [cls |-> "Expr", has_pos |-> TRUE, lineno |-> 1, col_offset |-> 0,
      end_lineno |-> 2, end_col_offset |-> 2, decorator_list |-> <<>>,
      children |-> <<3>>],
     [cls |-> "Tuple", has_pos |-> TRUE, lineno |-> 1, col_offset |-> 0,
      end_lineno |-> 2, end_col_offset |-> 2, decorator_list |-> <<>>,
      children |-> <<4, 6, 8>>],
     [cls |-> "Name", has_pos |-> TRUE, lineno |-> 1, col_offset |-> 1,
      end_lineno |-> 1, end_col_offset |-> 2, decorator_list |-> <<>>,
      children |-> <<5>>],
     [cls |-> "Load", has_pos |-> FALSE, lineno |-> 0, col_offset |-> 0,
      end_lineno |-> 0, end_col_offset |-> 0, decorator_list |-> <<>>,
      children |-> <<>>],
     [cls |-> "Name", has_pos |-> TRUE, lineno |-> 2, col_offset |-> 0,
      end_lineno |-> 2, end_col_offset |-> 1, decorator_list |-> <<>>,
      children |-> <<7>>],
     [cls |-> "Load", has_pos |-> FALSE, lineno |-> 0, col_offset |-> 0,
      end_lineno |-> 0, end_col_offset |-> 0, decorator_list |-> <<>>,
      children |-> <<>>],
     [cls |-> "Load", has_pos |-> FALSE, lineno |-> 0, col_offset |-> 0,
      end_lineno |-> 0, end_col_offset |-> 0, decorator_list |-> <<>>,
      children |-> <<>>]
   >>],
  \* paren_callee: "(f)()"
  [src |-> <<"(", "f", ")", "(", ")">>,
   legacy |-> FALSE,
   toks |-> <<
     <<"OP", "(", <<1, 0>>, <<1, 1>>>>,
     <<"NAME", "f", <<1, 1>>, <<1, 2>>>>,
     <<"OP", ")", <<1, 2>>, <<1, 3>>>>,
     <<"OP", "(", <<1, 3>>, <<1, 4>>>>,
     <<"OP", ")", <<1, 4>>, <<1, 5>>>>,
     <<"NEWLINE", "", <<1, 5>>, <<1, 6>>>>,
     <<"ENDMARKER", "", <<2, 0>>, <<2, 0>>>>
   >>,
   tree |-> <<
     [cls |-> "Module", has_pos |-> FALSE, lineno |-> 0, col_offset |-> 0,
      end_lineno |-> 0, end_col_offset |-> 0, decorator_list |-> <<>>,
      children |-> <<2>>],
     [cls |-> "Expr", has_pos |-> TRUE, lineno |-> 1, col_offset |-> 0,
      end_lineno |-> 1, end_col_offset |-> 5, decorator_list |-> <<>>,
      children |-> <<3>>],
     [cls |-> "Call", has_pos |-> TRUE, lineno |-> 1, col_offset |-> 0,
      end_lineno |-> 1, end_col_offset |-> 5, decorator_list |-> <<>>,
      children |-> <<4>>],
     [cls |-> "Name", has_pos |-> TRUE, lineno |-> 1, col_offset |-> 1,
      end_lineno |-> 1, end_col_offset |-> 2, decorator_list |-> <<>>,
      children |-> <<5>>],
     [cls |-> "Load", has_pos |-> FALSE, lineno |-> 0, col_offset |-> 0,
      end_lineno |-> 0, end_col_offset |-> 0, decorator_list |-> <<>>,
      children |-> <<>>]
   >>],
  \* paren_arg: "(f)((1))"
  [src |-> <<"(", "f", ")", "(", "(", "1", ")", ")">>,
   legacy |-> FALSE,
   toks |-> <<
     <<"OP", "(", <<1, 0>>, <<1, 1>>>>,
     <<"NAME", "f", <<1, 1>>, <<1, 2>>>>,
     <<"OP", ")", <<1, 2>>, <<1, 3>>>>,
     <<"OP", "(", <<1, 3>>, <<1, 4>>>>,
     <<"OP", "(", <<1, 4>>, <<1, 5>>>>,
     <<"NUMBER", "1", <<1, 5>>, <<1, 6>>>>,
     <<"OP", ")", <<1, 6>>, <<1, 7>>>>,
     <<"OP", ")", <<1, 7>>, <<1, 8>>>>,
     <<"NEWLINE", "", <<1, 8>>, <<1, 9>>>>,
     <<"ENDMARKER", "", <<2, 0>>, <<2, 0>>>>
   >>,
   tree |-> <<
     [cls |-> "Module", has_pos |-> FALSE, lineno |-> 0, col_offset |-> 0,
      end_lineno |-> 0, end_col_offset |-> 0, decorator_list |-> <<>>,
      children |-> <<2>>],
     [cls |-> "Expr", has_pos |-> TRUE, lineno |-> 1, col_offset |-> 0,
      end_lineno |-> 1, end_col_offset |-> 8, decorator_list |-> <<>>,
      children |-> <<3>>],
     [cls |-> "Call", has_pos |-> TRUE, lineno |-> 1, col_offset |-> 0,
      end_lineno |-> 1, end_col_offset |-> 8, decorator_list |-> <<>>,
      children |-> <<4, 6>>],
     [cls |-> "Name", has_pos |-> TRUE, lineno |-> 1, col_offset |-> 1,
      end_lineno |-> 1, end_col_offset |-> 2, decorator_list |-> <<>>,
      children |-> <<5>>],
     [cls |-> "Load", has_pos |-> FALSE, lineno |-> 0, col_offset |-> 0,
      end_lineno |-> 0, end_col_offset |-> 0, decorator_list |-> <<>>,
      children |-> <<>>],
     [cls |-> "Constant", has_pos |-> TRUE, lineno |-> 1, col_offset |-> 5,
      end_lineno |-> 1, end_col_offset |-> 6, decorator_list |-> <<>>,
      children |-> <<>>]
   >>],
  \* decorated: "@d\ndef f(): pass\n"
  [src |-> <<"@", "d", "\n", "d", "e", "f", " ", "f", "(", ")", ":", " ", "p", "a", "s", "s", "\n">>,
   legacy |-> FALSE,
   toks |-> <<
     <<"OP", "@", <<1, 0>>, <<1, 1>>>>,
     <<"NAME", "d", <<1, 1>>, <<1, 2>>>>,
     <<"NEWLINE", "\n", <<1, 2>>, <<1, 3>>>>,
     <<"NAME", "def", <<2, 0>>, <<2, 3>>>>,
     <<"NAME", "f", <<2, 4>>, <<2, 5>>>>,
     <<"OP", "(", <<2, 5>>, <<2, 6>>>>,
     <<"OP", ")", <<2, 6>>, <<2, 7>>>>,
     <<"OP", ":", <<2, 7>>, <<2, 8>>>>,
     <<"NAME", "pass", <<2, 9>>, <<2, 13>>>>,
     <<"NEWLINE", "\n", <<2, 13>>, <<2, 14>>>>,
     <<"ENDMARKER", "", <<3, 0>>, <<3, 0>>>>
   >>,
   tree |-> <<
     [cls |-> "Module", has_pos |-> FALSE, lineno |-> 0, col_offset |-> 0,
      end_lineno |-> 0, end_col_offset |-> 0, decorator_list |-> <<>>,
      children |-> <<2>>],
     [cls |-> "FunctionDef", has_pos |-> TRUE, lineno |-> 2, col_offset |-> 0,
      end_lineno |-> 2, end_col_offset |-> 13, decorator_list |-> <<5>>,
      children |-> <<3, 4, 5>>],
     [cls |-> "arguments", has_pos |-> FALSE, lineno |-> 0, col_offset |-> 0,
      end_lineno |-> 0, end_col_offset |-> 0, decorator_list |-> <<>>,
      children |-> <<>>],
     [cls |-> "Pass", has_pos |-> TRUE, lineno |-> 2, col_offset |-> 9,
      end_lineno |-> 2, end_col_offset |-> 13, decorator_list |-> <<>>,
      children |-> <<>>],
     [cls |-> "Name", has_pos |-> TRUE, lineno |-> 1, col_offset |-> 1,
      end_lineno |-> 1, end_col_offset |-> 2, decorator_list |-> <<>>,
      children |-> <<6>>],
     [cls |-> "Load", has_pos |-> FALSE, lineno |-> 0, col_offset |-> 0,
      end_lineno |-> 0, end_col_offset |-> 0, decorator_list |-> <<>>,
      children |-> <<>>]
   >>],
  \* dict_del: "x = {4:5}\ndel x[4]"
  [src |-> <<"x", " ", "=", " ", "{", "4", ":", "5", "}", "\n", "d", "e", "l", " ", "x", "[", "4", "]">>,
   legacy |-> FALSE,
   toks |-> <<
     <<"NAME", "x", <<1, 0>>, <<1, 1>>>>,
     <<"OP", "=", <<1, 2>>, <<1, 3>>>>,
     <<"OP", "{", <<1, 4>>, <<1, 5>>>>,
     <<"NUMBER", "4", <<1, 5>>, <<1, 6>>>>,
     <<"OP", ":", <<1, 6>>, <<1, 7>>>>,
     <<"NUMBER", "5", <<1, 7>>, <<1, 8>>>>,
     <<"OP", "}", <<1, 8>>, <<1, 9>>>>,
     <<"NEWLINE", "\n", <<1, 9>>, <<1, 10>>>>,
     <<"NAME", "del", <<2, 0>>, <<2, 3>>>>,
     <<"NAME", "x", <<2, 4>>, <<2, 5>>>>,
     <<"OP", "[", <<2, 5>>, <<2, 6>>>>,
     <<"NUMBER", "4", <<2, 6>>, <<2, 7>>>>,
     <<"OP", "]", <<2, 7>>, <<2, 8>>>>,
     <<"NEWLINE", "", <<2, 8>>, <<2, 9>>>>,
     <<"ENDMARKER", "", <<3, 0>>, <<3, 0>>>>
   >>,
   tree |-> <<
     [cls |-> "Module", has_pos |-> FALSE, lineno |-> 0, col_offset |-> 0,
      end_lineno |-> 0, end_col_offset |-> 0, decorator_list |-> <<>>,
      children |-> <<2, 8>>],
     [cls |-> "Assign", has_pos |-> TRUE, lineno |-> 1, col_offset |-> 0,
      end_lineno |-> 1, end_col_offset |-> 9, decorator_list |-> <<>>,
      children |-> <<3, 5>>],
     [cls |-> "Name", has_pos |-> TRUE, lineno |-> 1, col_offset |-> 0,
      end_lineno |-> 1, end_col_offset |-> 1, decorator_list |-> <<>>,
      children |-> <<4>>],
     [cls |-> "Store", has_pos |-> FALSE, lineno |-> 0, col_offset |-> 0,
      end_lineno |-> 0, end_col_offset |-> 0, decorator_list |-> <<>>,
      children |-> <<>>],
     [cls |-> "Dict", has_pos |-> TRUE, lineno |-> 1, col_offset |-> 4,
      end_lineno |-> 1, end_col_offset |-> 9, decorator_list |-> <<>>,
      children |-> <<6, 7>>],
     [cls |-> "Constant", has_pos |-> TRUE, lineno |-> 1, col_offset |-> 5,
      end_lineno |-> 1, end_col_offset |-> 6, decorator_list |-> <<>>,
      children |-> <<>>],
     [cls |-> "Constant", has_pos |-> TRUE, lineno |-> 1, col_offset |-> 7,
      end_lineno |-> 1, end_col_offset |-> 8, decorator_list |-> <<>>,
      children |-> <<>>],
     [cls |-> "Delete", has_pos |-> TRUE, lineno |-> 2, col_offset |-> 0,
      end_lineno |-> 2, end_col_offset |-> 8, decorator_list |-> <<>>,
      children |-> <<9>>],
     [cls |-> "Subscript", has_pos |-> TRUE, lineno |-> 2, col_offset |-> 4,
      end_lineno |-> 2, end_col_offset |-> 8, decorator_list |-> <<>>,
      children |-> <<10, 12, 13>>],
     [cls |-> "Name", has_pos |-> TRUE, lineno |-> 2, col_offset |-> 4,
      end_lineno |-> 2, end_col_offset |-> 5, decorator_list |-> <<>>,
      children |-> <<11>>],
     [cls |-> "Load", has_pos |-> FALSE, lineno |-> 0, col_offset |-> 0,
      end_lineno |-> 0, end_col_offset |-> 0, decorator_list |-> <<>>,
      children |-> <<>>],
     [cls |-> "Constant", has_pos |-> TRUE, lineno |-> 2, col_offset |-> 6,
      end_lineno |-> 2, end_col_offset |-> 7, decorator_list |-> <<>>,
      children |-> <<>>],
     [cls |-> "Del", has_pos |-> FALSE, lineno |-> 0, col_offset |-> 0,
      end_lineno |-> 0, end_col_offset |-> 0, decorator_list |-> <<>>,
      children |-> <<>>]
   >>],
  \* keywords: "f(x=1)\ng(a=(x),b=[y])"
  [src |-> <<"f", "(", "x", "=", "1", ")", "\n", "g", "(", "a", "=", "(", "x", ")", ",", "b", "=", "[", "y", "]", ")">>,
   legacy |-> FALSE,
   toks |-> <<
     <<"NAME", "f", <<1, 0>>, <<1, 1>>>>,
     <<"OP", "(", <<1, 1>>, <<1, 2>>>>,
     <<"NAME", "x", <<1, 2>>, <<1, 3>>>>,
     <<"OP", "=", <<1, 3>>, <<1, 4>>>>,
     <<"NUMBER", "1", <<1, 4>>, <<1, 5>>>>,
     <<"OP", ")", <<1, 5>>, <<1, 6>>>>,
     <<"NEWLINE", "\n", <<1, 6>>, <<1, 7>>>>,
     <<"NAME", "g", <<2, 0>>, <<2, 1>>>>,
     <<"OP", "(", <<2, 1>>, <<2, 2>>>>,
     <<"NAME", "a", <<2, 2>>, <<2, 3>>>>,
     <<"OP", "=", <<2, 3>>, <<2, 4>>>>,
     <<"OP", "(", <<2, 4>>, <<2, 5>>>>,
     <<"NAME", "x", <<2, 5>>, <<2, 6>>>>,
     <<"OP", ")", <<2, 6>>, <<2, 7>>>>,
     <<"OP", ",", <<2, 7>>, <<2, 8>>>>,
     <<"NAME", "b", <<2, 8>>, <<2, 9>>>>,
     <<"OP", "=", <<2, 9>>, <<2, 10>>>>,
     <<"OP", "[", <<2, 10>>, <<2, 11>>>>,
     <<"NAME", "y", <<2, 11>>, <<2, 12>>>>,
     <<"OP", "]", <<2, 12>>, <<2, 13>>>>,
     <<"OP", ")", <<2, 13>>, <<2, 14>>>>,
     <<"NEWLINE", "", <<2, 14>>, <<2, 15>>>>,
     <<"ENDMARKER", "", <<3, 0>>, <<3, 0>>>>
   >>,
   tree |-> <<
     [cls |-> "Module", has_pos |-> FALSE, lineno |-> 0, col_offset |-> 0,
      end_lineno |-> 0, end_col_offset |-> 0, decorator_list |-> <<>>,
      children |-> <<2, 8>>],
     [cls |-> "Expr", has_pos |-> TRUE, lineno |-> 1, col_offset |-> 0,
      end_lineno |-> 1, end_col_offset |-> 6, decorator_list |-> <<>>,
      children |-> <<3>>],
     [cls |-> "Call", has_pos |-> TRUE, lineno |-> 1, col_offset |-> 0,
      end_lineno |-> 1, end_col_offset |-> 6, decorator_list |-> <<>>,
      children |-> <<4, 6>>],
     [cls |-> "Name", has_pos |-> TRUE, lineno |-> 1, col_offset |-> 0,
      end_lineno |-> 1, end_col_offset |-> 1, decorator_list |-> <<>>,
      children |-> <<5>>],
     [cls |-> "Load", has_pos |-> FALSE, lineno |-> 0, col_offset |-> 0,
      end_lineno |-> 0, end_col_offset |-> 0, decorator_list |-> <<>>,
      children |-> <<>>],
     [cls |-> "keyword", has_pos |-> TRUE, lineno |-> 1, col_offset |-> 2,
      end_lineno |-> 1, end_col_offset |-> 5, decorator_list |-> <<>>,
      children |-> <<7>>],
     [cls |-> "Constant", has_pos |-> TRUE, lineno |-> 1, col_offset |-> 4,
      end_lineno |-> 1, end_col_offset |-> 5, decorator_list |-> <<>>,
      children |-> <<>>],
     [cls |-> "Expr", has_pos |-> TRUE, lineno |-> 2, col_offset |-> 0,
      end_lineno |-> 2, end_col_offset |-> 14, decorator_list |-> <<>>,
      children |-> <<9>>],
     [cls |-> "Call", has_pos |-> TRUE, lineno |-> 2, col_offset |-> 0,
      end_lineno |-> 2, end_col_offset |-> 14, decorator_list |-> <<>>,
      children |-> <<10, 12, 15>>],
     [cls |-> "Name", has_pos |-> TRUE, lineno |-> 2, col_offset |-> 0,
      end_lineno |-> 2, end_col_offset |-> 1, decorator_list |-> <<>>,
      children |-> <<11>>],
     [cls |-> "Load", has_pos |-> FALSE, lineno |-> 0, col_offset |-> 0,
      end_lineno |-> 0, end_col_offset |-> 0, decorator_list |-> <<>>,
      children |-> <<>>],
     [cls |-> "keyword", has_pos |-> TRUE, lineno |-> 2, col_offset |-> 2,
      end_lineno |-> 2, end_col_offset |-> 7, decorator_list |-> <<>>,
      children |-> <<13>>],
     [cls |-> "Name", has_pos |-> TRUE, lineno |-> 2, col_offset |-> 5,
      end_lineno |-> 2, end_col_offset |-> 6, decorator_list |-> <<>>,
      children |-> <<14>>],
     [cls |-> "Load", has_pos |-> FALSE, lineno |-> 0, col_offset |-> 0,
      end_lineno |-> 0, end_col_offset |-> 0, decorator_list |-> <<>>,
      children |-> <<>>],
     [cls |-> "keyword", has_pos |-> TRUE, lineno |-> 2, col_offset |-> 8,
      end_lineno |-> 2, end_col_offset |-> 13, decorator_list |-> <<>>,
      children |-> <<16>>],
     [cls |-> "List", has_pos |-> TRUE, lineno |-> 2, col_offset |-> 10,
      end_lineno |-> 2, end_col_offset |-> 13, decorator_list |-> <<>>,
      children |-> <<17, 19>>],
     [cls |-> "Name", has_pos |-> TRUE, lineno |-> 2, col_offset |-> 11,
      end_lineno |-> 2, end_col_offset |-> 12, decorator_list |-> <<>>,
      children |-> <<18>>],
     [cls |-> "Load", has_pos |-> FALSE, lineno |-> 0, col_offset |-> 0,
      end_lineno |-> 0, end_col_offset |-> 0, decorator_list |-> <<>>,
      children |-> <<>>],
     [cls |-> "Load", has_pos |-> FALSE, lineno |-> 0, col_offset |-> 0,
      end_lineno |-> 0, end_col_offset |-> 0, decorator_list |-> <<>>,
      children |-> <<>>]
   >>],
  \* listcomp: "[x for x in y]"
  [src |-> <<"[", "x", " ", "f", "o", "r", " ", "x", " ", "i", "n", " ", "y", "]">>,
   legacy |-> FALSE,
   toks |-> <<
     <<"OP", "[", <<1, 0>>, <<1, 1>>>>,
     <<"NAME", "x", <<1, 1>>, <<1, 2>>>>,
     <<"NAME", "for", <<1, 3>>, <<1, 6>>>>,
     <<"NAME", "x", <<1, 7>>, <<1, 8>>>>,
     <<"NAME", "in", <<1, 9>>, <<1, 11>>>>,
     <<"NAME", "y", <<1, 12>>, <<1, 13>>>>,
     <<"OP", "]", <<1, 13>>, <<1, 14>>>>,
     <<"NEWLINE", "", <<1, 14>>, <<1, 15>>>>,
     <<"ENDMARKER", "", <<2, 0>>, <<2, 0>>>>
   >>,
   tree |-> <<
     [cls |-> "Module", has_pos |-> FALSE, lineno |-> 0, col_offset |-> 0,
      end_lineno |-> 0, end_col_offset |-> 0, decorator_list |-> <<>>,
      children |-> <<2>>],
     [cls |-> "Expr", has_pos |-> TRUE, lineno |-> 1, col_offset |-> 0,
      end_lineno |-> 1, end_col_offset |-> 14, decorator_list |-> <<>>,
      children |-> <<3>>],
     [cls |-> "ListComp", has_pos |-> TRUE, lineno |-> 1, col_offset |-> 0,
      end_lineno |-> 1, end_col_offset |-> 14, decorator_list |-> <<>>,
      children |-> <<4, 6>>],
     [cls |-> "Name", has_pos |-> TRUE, lineno |-> 1, col_offset |-> 1,
      end_lineno |-> 1, end_col_offset |-> 2, decorator_list |-> <<>>,
      children |-> <<5>>],
     [cls |-> "Load", has_pos |-> FALSE, lineno |-> 0, col_offset |-> 0,
      end_lineno |-> 0, end_col_offset |-> 0, decorator_list |-> <<>>,
      children |-> <<>>],
     [cls |-> "comprehension", has_pos |-> FALSE, lineno |-> 0, col_offset |-> 0,
      end_lineno |-> 0, end_col_offset |-> 0, decorator_list |-> <<>>,
      children |-> <<7, 9>>],
     [cls |-> "Name", has_pos |-> TRUE, lineno |-> 1, col_offset |-> 7,
      end_lineno |-> 1, end_col_offset |-> 8, decorator_list |-> <<>>,
      children |-> <<8>>],
     [cls |-> "Store", has_pos |-> FALSE, lineno |-> 0, col_offset |-> 0,
      end_lineno |-> 0, end_col_offset |-> 0, decorator_list |-> <<>>,
      children |-> <<>>],
     [cls |-> "Name", has_pos |-> TRUE, lineno |-> 1, col_offset |-> 12,
      end_lineno |-> 1, end_col_offset |-> 13, decorator_list |-> <<>>,
      children |-> <<10>>],
     [cls |-> "Load", has_pos |-> FALSE, lineno |-> 0, col_offset |-> 0,
      end_lineno |-> 0, end_col_offset |-> 0, decorator_list |-> <<>>,
      children |-> <<>>]
   >>],
  \* neg: "-1"
  [src |-> <<"-", "1">>,
   legacy |-> FALSE,
   toks |-> <<
     <<"OP", "-", <<1, 0>>, <<1, 1>>>>,
     <<"NUMBER", "1", <<1, 1>>, <<1, 2>>>>,
     <<"NEWLINE", "", <<1, 2>>, <<1, 3>>>>,
     <<"ENDMARKER", "", <<2, 0>>, <<2, 0>>>>
   >>,
   tree |-> <<
     [cls |-> "Module", has_pos |-> FALSE, lineno |-> 0, col_offset |-> 0,
      end_lineno |-> 0, end_col_offset |-> 0, decorator_list |-> <<>>,
      children |-> <<2>>],
     [cls |-> "Expr", has_pos |-> TRUE, lineno |-> 1, col_offset |-> 0,
      end_lineno |-> 1, end_col_offset |-> 2, decorator_list |-> <<>>,
      children |-> <<3>>],
     [cls |-> "UnaryOp", has_pos |-> TRUE, lineno |-> 1, col_offset |-> 0,
      end_lineno |-> 1, end_col_offset |-> 2, decorator_list |-> <<>>,
      children |-> <<4, 5>>],
     [cls |-> "USub", has_pos |-> FALSE, lineno |-> 0, col_offset |-> 0,
      end_lineno |-> 0, end_col_offset |-> 0, decorator_list |-> <<>>,
      children |-> <<>>],
     [cls |-> "Constant", has_pos |-> TRUE, lineno |-> 1, col_offset |-> 1,
      end_lineno |-> 1, end_col_offset |-> 2, decorator_list |-> <<>>,
      children |-> <<>>]
   >>],
  \* multiline: "(    # line1\na,      # line2\nb +     # line3\n  c +   # line4\n  d     # line5\n)"
  [src |-> <<"(", " ", " ", " ", " ", "#", " ", "l", "i", "n", "e", "1", "\n", "a", ",", " ", " ", " ", " ", " ", " ", "#", " ", "l", "i", "n", "e", "2", "\n", "b", " ", "+", " ", " ", " ", " ", " ", "#", " ", "l", "i", "n", "e", "3", "\n", " ", " ", "c", " ", "+", " ", " ", " ", "#", " ", "l", "i", "n", "e", "4", "\n", " ", " ", "d", " ", " ", " ", " ", " ", "#", " ", "l", "i", "n", "e", "5", "\n", ")">>,
   legacy |-> FALSE,
   toks |-> <<
     <<"OP", "(", <<1, 0>>, <<1, 1>>>>,
     <<"COMMENT", "# line1", <<1, 5>>, <<1, 12>>>>,
     <<"NL", "\n", <<1, 12>>, <<1, 13>>>>,
     <<"NAME", "a", <<2, 0>>, <<2, 1>>>>,
     <<"OP", ",", <<2, 1>>, <<2, 2>>>>,
     <<"COMMENT", "# line2", <<2, 8>>, <<2, 15>>>>,
     <<"NL", "\n", <<2, 15>>, <<2, 16>>>>,
     <<"NAME", "b", <<3, 0>>, <<3, 1>>>>,
     <<"OP", "+", <<3, 2>>, <<3, 3>>>>,
     <<"COMMENT", "# line3", <<3, 8>>, <<3, 15>>>>,
     <<"NL", "\n", <<3, 15>>, <<3, 16>>>>,
     <<"NAME", "c", <<4, 2>>, <<4, 3>>>>,
     <<"OP", "+", <<4, 4>>, <<4, 5>>>>,
     <<"COMMENT", "# line4", <<4, 8>>, <<4, 15>>>>,
     <<"NL", "\n", <<4, 15>>, <<4, 16>>>>,
     <<"NAME", "d", <<5, 2>>, <<5, 3>>>>,
     <<"COMMENT", "# line5", <<5, 8>>, <<5, 15>>>>,
     <<"NL", "\n", <<5, 15>>, <<5, 16>>>>,
     <<"OP", ")", <<6, 0>>, <<6, 1>>>>,
     <<"NEWLINE", "", <<6, 1>>, <<6, 2>>>>,
     <<"ENDMARKER", "", <<7, 0>>, <<7, 0>>>>
   >>,
   tree |-> <<
     [cls |-> "Module", has_pos |-> FALSE, lineno |-> 0, col_offset |-> 0,
      end_lineno |-> 0, end_col_offset |-> 0, decorator_list |-> <<>>,
      children |-> <<2>>],
     [cls |-> "Expr", has_pos |-> TRUE, lineno |-> 1, col_offset |-> 0,
      end_lineno |-> 6, end_col_offset |-> 1, decorator_list |-> <<>>,
      children |-> <<3>>],
     [cls |-> "Tuple", has_pos |-> TRUE, lineno |-> 1, col_offset |-> 0,
      end_lineno |-> 6, end_col_offset |-> 1, decorator_list |-> <<>>,
      children |-> <<4, 6, 16>>],
     [cls |-> "Name", has_pos |-> TRUE, lineno |-> 2, col_offset |-> 0,
      end_lineno |-> 2, end_col_offset |-> 1, decorator_list |-> <<>>,
      children |-> <<5>>],
     [cls |-> "Load", has_pos |-> FALSE, lineno |-> 0, col_offset |-> 0,
      end_lineno |-> 0, end_col_offset |-> 0, decorator_list |-> <<>>,
      children |-> <<>>],
     [cls |-> "BinOp", has_pos |-> TRUE, lineno |-> 3, col_offset |-> 0,
      end_lineno |-> 5, end_col_offset |-> 3, decorator_list |-> <<>>,
      children |-> <<7, 13, 14>>],
     [cls |-> "BinOp", has_pos |-> TRUE, lineno |-> 3, col_offset |-> 0,
      end_lineno |-> 4, end_col_offset |-> 3, decorator_list |-> <<>>,
      children |-> <<8, 10, 11>>],
     [cls |-> "Name", has_pos |-> TRUE, lineno |-> 3, col_offset |-> 0,
      end_lineno |-> 3, end_col_offset |-> 1, decorator_list |-> <<>>,
      children |-> <<9>>],
     [cls |-> "Load", has_pos |-> FALSE, lineno |-> 0, col_offset |-> 0,
      end_lineno |-> 0, end_col_offset |-> 0, decorator_list |-> <<>>,
      children |-> <<>>],
     [cls |-> "Add", has_pos |-> FALSE, lineno |-> 0, col_offset |-> 0,
      end_lineno |-> 0, end_col_offset |-> 0, decorator_list |-> <<>>,
      children |-> <<>>],
     [cls |-> "Name", has_pos |-> TRUE, lineno |-> 4, col_offset |-> 2,
      end_lineno |-> 4, end_col_offset |-> 3, decorator_list |-> <<>>,
      children |-> <<12>>],
     [cls |-> "Load", has_pos |-> FALSE, lineno |-> 0, col_offset |-> 0,
      end_lineno |-> 0, end_col_offset |-> 0, decorator_list |-> <<>>,
      children |-> <<>>],
     [cls |-> "Add", has_pos |-> FALSE, lineno |-> 0, col_offset |-> 0,
      end_lineno |-> 0, end_col_offset |-> 0, decorator_list |-> <<>>,
      children |-> <<>>],
     [cls |-> "Name", has_pos |-> TRUE, lineno |-> 5, col_offset |-> 2,
      end_lineno |-> 5, end_col_offset |-> 3, decorator_list |-> <<>>,
      children |-> <<15>>],
     [cls |-> "Load", has_pos |-> FALSE, lineno |-> 0, col_offset |-> 0,
      end_lineno |-> 0, end_col_offset |-> 0, decorator_list |-> <<>>,
      children |-> <<>>],
     [cls |-> "Load", has_pos |-> FALSE, lineno |-> 0, col_offset |-> 0,
      end_lineno |-> 0, end_col_offset |-> 0, decorator_list |-> <<>>,
      children |-> <<>>]
   >>],
  \* import_comment: "import re  # comment\n\nfoo = 'bar'\n"
  [src |-> <<"i", "m", "p", "o", "r", "t", " ", "r", "e", " ", " ", "#", " ", "c", "o", "m", "m", "e", "n", "t", "\n", "\n", "f", "o", "o", " ", "=", " ", "'", "b", "a", "r", "'", "\n">>,
   legacy |-> FALSE,
   toks |-> <<
     <<"NAME", "import", <<1, 0>>, <<1, 6>>>>,
     <<"NAME", "re", <<1, 7>>, <<1, 9>>>>,
     <<"COMMENT", "# comment", <<1, 11>>, <<1, 20>>>>,
     <<"NEWLINE", "\n", <<1, 20>>, <<1, 21>>>>,
     <<"NL", "\n", <<2, 0>>, <<2, 1>>>>,
     <<"NAME", "foo", <<3, 0>>, <<3, 3>>>>,
     <<"OP", "=", <<3, 4>>, <<3, 5>>>>,
     <<"STRING", "'bar'", <<3, 6>>, <<3, 11>>>>,
     <<"NEWLINE", "\n", <<3, 11>>, <<3, 12>>>>,
     <<"ENDMARKER", "", <<4, 0>>, <<4, 0>>>>
   >>,
   tree |-> <<
     [cls |-> "Module", has_pos |-> FALSE, lineno |-> 0, col_offset |-> 0,
      end_lineno |-> 0, end_col_offset |-> 0, decorator_list |-> <<>>,
      children |-> <<2, 4>>],
     [cls |-> "Import", has_pos |-> TRUE, lineno |-> 1, col_offset |-> 0,
      end_lineno |-> 1, end_col_offset |-> 9, decorator_list |-> <<>>,
      children |-> <<3>>],
     [cls |-> "alias", has_pos |-> TRUE, lineno |-> 1, col_offset |-> 7,
      end_lineno |-> 1, end_col_offset |-> 9, decorator_list |-> <<>>,
      children |-> <<>>],
     [cls |-> "Assign", has_pos |-> TRUE, lineno |-> 3, col_offset |-> 0,
      end_lineno |-> 3, end_col_offset |-> 11, decorator_list |-> <<>>,
      children |-> <<5, 7>>],
     [cls |-> "Name", has_pos |-> TRUE, lineno |-> 3, col_offset |-> 0,
      end_lineno |-> 3, end_col_offset |-> 3, decorator_list |-> <<>>,
      children |-> <<6>>],
     [cls |-> "Store", has_pos |-> FALSE, lineno |-> 0, col_offset |-> 0,
      end_lineno |-> 0, end_col_offset |-> 0, decorator_list |-> <<>>,
      children |-> <<>>],
     [cls |-> "Constant", has_pos |-> TRUE, lineno |-> 3, col_offset |-> 6,
      end_lineno |-> 3, end_col_offset |-> 11, decorator_list |-> <<>>,
      children |-> <<>>]
   >>],
  \* lead_comment: "  # c\nx\n"
  [src |-> <<" ", " ", "#", " ", "c", "\n", "x", "\n">>,
   legacy |-> FALSE,
   toks |-> <<
     <<"COMMENT", "# c", <<1, 2>>, <<1, 5>>>>,
     <<"NL", "\n", <<1, 5>>, <<1, 6>>>>,
     <<"NAME", "x", <<2, 0>>, <<2, 1>>>>,
     <<"NEWLINE", "\n", <<2, 1>>, <<2, 2>>>>,
     <<"ENDMARKER", "", <<3, 0>>, <<3, 0>>>>
   >>,
   tree |-> <<
     [cls |-> "Module", has_pos |-> FALSE, lineno |-> 0, col_offset |-> 0,
      end_lineno |-> 0, end_col_offset |-> 0, decorator_list |-> <<>>,
      children |-> <<2>>],
     [cls |-> "Expr", has_pos |-> TRUE, lineno |-> 2, col_offset |-> 0,
      end_lineno |-> 2, end_col_offset |-> 1, decorator_list |-> <<>>,
      children |-> <<3>>],
     [cls |-> "Name", has_pos |-> TRUE, lineno |-> 2, col_offset |-> 0,
      end_lineno |-> 2, end_col_offset |-> 1, decorator_list |-> <<>>,
      children |-> <<4>>],
     [cls |-> "Load", has_pos |-> FALSE, lineno |-> 0, col_offset |-> 0,
      end_lineno |-> 0, end_col_offset |-> 0, decorator_list |-> <<>>,
      children |-> <<>>]
   >>],
  \* if_block: "if a:\n  b\n"
  [src |-> <<"i", "f", " ", "a", ":", "\n", " ", " ", "b", "\n">>,
   legacy |-> FALSE,
   toks |-> <<
     <<"NAME", "if", <<1, 0>>, <<1, 2>>>>,
     <<"NAME", "a", <<1, 3>>, <<1, 4>>>>,
     <<"OP", ":", <<1, 4>>, <<1, 5>>>>,
     <<"NEWLINE", "\n", <<1, 5>>, <<1, 6>>>>,
     <<"INDENT", "  ", <<2, 0>>, <<2, 2>>>>,
     <<"NAME", "b", <<2, 2>>, <<2, 3>>>>,
     <<"NEWLINE", "\n", <<2, 3>>, <<2, 4>>>>,
     <<"DEDENT", "", <<3, 0>>, <<3, 0>>>>,
     <<"ENDMARKER", "", <<3, 0>>, <<3, 0>>>>
   >>,
   tree |-> <<
     [cls |-> "Module", has_pos |-> FALSE, lineno |-> 0, col_offset |-> 0,
      end_lineno |-> 0, end_col_offset |-> 0, decorator_list |-> <<>>,
      children |-> <<2>>],
     [cls |-> "If", has_pos |-> TRUE, lineno |-> 1, col_offset |-> 0,
      end_lineno |-> 2, end_col_offset |-> 3, decorator_list |-> <<>>,
      children |-> <<3, 5>>],
     [cls |-> "Name", has_pos |-> TRUE, lineno |-> 1, col_offset |-> 3,
      end_lineno |-> 1, end_col_offset |-> 4, decorator_list |-> <<>>,
      children |-> <<4>>],
     [cls |-> "Load", has_pos |-> FALSE, lineno |-> 0, col_offset |-> 0,
      end_lineno |-> 0, end_col_offset |-> 0, decorator_list |-> <<>>,
      children |-> <<>>],
     [cls |-> "Expr", has_pos |-> TRUE, lineno |-> 2, col_offset |-> 2,
      end_lineno |-> 2, end_col_offset |-> 3, decorator_list |-> <<>>,
      children |-> <<6>>],
     [cls |-> "Name", has_pos |-> TRUE, lineno |-> 2, col_offset |-> 2,
      end_lineno |-> 2, end_col_offset |-> 3, decorator_list |-> <<>>,
      children |-> <<7>>],
     [cls |-> "Load", has_pos |-> FALSE, lineno |-> 0, col_offset |-> 0,
      end_lineno |-> 0, end_col_offset |-> 0, decorator_list |-> <<>>,
      children |-> <<>>]
   >>],
  \* funcdef: "def f(x):\n  return x\n"
  [src |-> <<"d", "e", "f", " ", "f", "(", "x", ")", ":", "\n", " ", " ", "r", "e", "t", "u", "r", "n", " ", "x", "\n">>,
   legacy |-> FALSE,
   toks |-> <<
     <<"NAME", "def", <<1, 0>>, <<1, 3>>>>,
     <<"NAME", "f", <<1, 4>>, <<1, 5>>>>,
     <<"OP", "(", <<1, 5>>, <<1, 6>>>>,
     <<"NAME", "x", <<1, 6>>, <<1, 7>>>>,
     <<"OP", ")", <<1, 7>>, <<1, 8>>>>,
     <<"OP", ":", <<1, 8>>, <<1, 9>>>>,
     <<"NEWLINE", "\n", <<1, 9>>, <<1, 10>>>>,
     <<"INDENT", "  ", <<2, 0>>, <<2, 2>>>>,
     <<"NAME", "return", <<2, 2>>, <<2, 8>>>>,
     <<"NAME", "x", <<2, 9>>, <<2, 10>>>>,
     <<"NEWLINE", "\n", <<2, 10>>, <<2, 11>>>>,
     <<"DEDENT", "", <<3, 0>>, <<3, 0>>>>,
     <<"ENDMARKER", "", <<3, 0>>, <<3, 0>>>>
   >>,
   tree |-> <<
     [cls |-> "Module", has_pos |-> FALSE, lineno |-> 0, col_offset |-> 0,
      end_lineno |-> 0, end_col_offset |-> 0, decorator_list |-> <<>>,
      children |-> <<2>>],
     [cls |-> "FunctionDef", has_pos |-> TRUE, lineno |-> 1, col_offset |-> 0,
      end_lineno |-> 2, end_col_offset |-> 10, decorator_list |-> <<>>,
      children |-> <<3, 5>>],
     [cls |-> "arguments", has_pos |-> FALSE, lineno |-> 0, col_offset |-> 0,
      end_lineno |-> 0, end_col_offset |-> 0, decorator_list |-> <<>>,
      children |-> <<4>>],
     [cls |-> "arg", has_pos |-> TRUE, lineno |-> 1, col_offset |-> 6,
      end_lineno |-> 1, end_col_offset |-> 7, decorator_list |-> <<>>,
      children |-> <<>>],
     [cls |-> "Return", has_pos |-> TRUE, lineno |-> 2, col_offset |-> 2,
      end_lineno |-> 2, end_col_offset |-> 10, decorator_list |-> <<>>,
      children |-> <<6>>],
     [cls |-> "Name", has_pos |-> TRUE, lineno |-> 2, col_offset |-> 9,
      end_lineno |-> 2, end_col_offset |-> 10, decorator_list |-> <<>>,
      children |-> <<7>>],
     [cls |-> "Load", has_pos |-> FALSE, lineno |-> 0, col_offset |-> 0,
      end_lineno |-> 0, end_col_offset |-> 0, decorator_list |-> <<>>,
      children |-> <<>>]
   >>],
  \* ifexp: "a if b else c"
  [src |-> <<"a", " ", "i", "f", " ", "b", " ", "e", "l", "s", "e", " ", "c">>,
   legacy |-> FALSE,
   toks |-> <<
     <<"NAME", "a", <<1, 0>>, <<1, 1>>>>,
     <<"NAME", "if", <<1, 2>>, <<1, 4>>>>,
     <<"NAME", "b", <<1, 5>>, <<1, 6>>>>,
     <<"NAME", "else", <<1, 7>>, <<1, 11>>>>,
     <<"NAME", "c", <<1, 12>>, <<1, 13>>>>,
     <<"NEWLINE", "", <<1, 13>>, <<1, 14>>>>,
     <<"ENDMARKER", "", <<2, 0>>, <<2, 0>>>>
   >>,
   tree |-> <<
     [cls |-> "Module", has_pos |-> FALSE, lineno |-> 0, col_offset |-> 0,
      end_lineno |-> 0, end_col_offset |-> 0, decorator_list |-> <<>>,
      children |-> <<2>>],
     [cls |-> "Expr", has_pos |-> TRUE, lineno |-> 1, col_offset |-> 0,
      end_lineno |-> 1, end_col_offset |-> 13, decorator_list |-> <<>>,
      children |-> <<3>>],
     [cls |-> "IfExp", has_pos |-> TRUE, lineno |-> 1, col_offset |-> 0,
      end_lineno |-> 1, end_col_offset |-> 13, decorator_list |-> <<>>,
      children |-> <<4, 6, 8>>],
     [cls |-> "Name", has_pos |-> TRUE, lineno |-> 1, col_offset |-> 5,
      end_lineno |-> 1, end_col_offset |-> 6, decorator_list |-> <<>>,
      children |-> <<5>>],
     [cls |-> "Load", has_pos |-> FALSE, lineno |-> 0, col_offset |-> 0,
      end_lineno |-> 0, end_col_offset |-> 0, decorator_list |-> <<>>,
      children |-> <<>>],
     [cls |-> "Name", has_pos |-> TRUE, lineno |-> 1, col_offset |-> 0,
      end_lineno |-> 1, end_col_offset |-> 1, decorator_list |-> <<>>,
      children |-> <<7>>],
     [cls |-> "Load", has_pos |-> FALSE, lineno |-> 0, col_offset |-> 0,
      end_lineno |-> 0, end_col_offset |-> 0, decorator_list |-> <<>>,
      children |-> <<>>],
     [cls |-> "Name", has_pos |-> TRUE, lineno |-> 1, col_offset |-> 12,
      end_lineno |-> 1, end_col_offset |-> 13, decorator_list |-> <<>>,
      children |-> <<9>>],
     [cls |-> "Load", has_pos |-> FALSE, lineno |-> 0, col_offset |-> 0,
      end_lineno |-> 0, end_col_offset |-> 0, decorator_list |-> <<>>,
      children |-> <<>>]
   >>],
  \* star_kw: "f(x=1, *a)"
  [src |-> <<"f", "(", "x", "=", "1", ",", " ", "*", "a", ")">>,
   legacy |-> FALSE,
   toks |-> <<
     <<"NAME", "f", <<1, 0>>, <<1, 1>>>>,
     <<"OP", "(", <<1, 1>>, <<1, 2>>>>,
     <<"NAME", "x", <<1, 2>>, <<1, 3>>>>,
     <<"OP", "=", <<1, 3>>, <<1, 4>>>>,
     <<"NUMBER", "1", <<1, 4>>, <<1, 5>>>>,
     <<"OP", ",", <<1, 5>>, <<1, 6>>>>,
     <<"OP", "*", <<1, 7>>, <<1, 8>>>>,
     <<"NAME", "a", <<1, 8>>, <<1, 9>>>>,
     <<"OP", ")", <<1, 9>>, <<1, 10>>>>,
     <<"NEWLINE", "", <<1, 10>>, <<1, 11>>>>,
     <<"ENDMARKER", "", <<2, 0>>, <<2, 0>>>>
   >>,
   tree |-> <<
     [cls |-> "Module", has_pos |-> FALSE, lineno |-> 0, col_offset |-> 0,
      end_lineno |-> 0, end_col_offset |-> 0, decorator_list |-> <<>>,
      children |-> <<2>>],
     [cls |-> "Expr", has_pos |-> TRUE, lineno |-> 1, col_offset |-> 0,
      end_lineno |-> 1, end_col_offset |-> 10, decorator_list |-> <<>>,
      children |-> <<3>>],
     [cls |-> "Call", has_pos |-> TRUE, lineno |-> 1, col_offset |-> 0,
      end_lineno |-> 1, end_col_offset |-> 10, decorator_list |-> <<>>,
      children |-> <<4, 6, 10>>],
     [cls |-> "Name", has_pos |-> TRUE, lineno |-> 1, col_offset |-> 0,
      end_lineno |-> 1, end_col_offset |-> 1, decorator_list |-> <<>>,
      children |-> <<5>>],
     [cls |-> "Load", has_pos |-> FALSE, lineno |-> 0, col_offset |-> 0,
      end_lineno |-> 0, end_col_offset |-> 0, decorator_list |-> <<>>,
      children |-> <<>>],
     [cls |-> "Starred", has_pos |-> TRUE, lineno |-> 1, col_offset |-> 7,
      end_lineno |-> 1, end_col_offset |-> 9, decorator_list |-> <<>>,
      children |-> <<7, 9>>],
     [cls |-> "Name", has_pos |-> TRUE, lineno |-> 1, col_offset |-> 8,
      end_lineno |-> 1, end_col_offset |-> 9, decorator_list |-> <<>>,
      children |-> <<8>>],
     [cls |-> "Load", has_pos |-> FALSE, lineno |-> 0, col_offset |-> 0,
      end_lineno |-> 0, end_col_offset |-> 0, decorator_list |-> <<>>,
      children |-> <<>>],
     [cls |-> "Load", has_pos |-> FALSE, lineno |-> 0, col_offset |-> 0,
      end_lineno |-> 0, end_col_offset |-> 0, decorator_list |-> <<>>,
      children |-> <<>>],
     [cls |-> "keyword", has_pos |-> TRUE, lineno |-> 1, col_offset |-> 2,
      end_lineno |-> 1, end_col_offset |-> 5, decorator_list |-> <<>>,
      children |-> <<11>>],
     [cls |-> "Constant", has_pos |-> TRUE, lineno |-> 1, col_offset |-> 4,
      end_lineno |-> 1, end_col_offset |-> 5, decorator_list |-> <<>>,
      children |-> <<>>]
   >>],
  \* trail_comment: "x = 1\n\n# c\n"
  [src |-> <<"x", " ", "=", " ", "1", "\n", "\n", "#", " ", "c", "\n">>,
   legacy |-> FALSE,
   toks |-> <<
     <<"NAME", "x", <<1, 0>>, <<1, 1>>>>,
     <<"OP", "=", <<1, 2>>, <<1, 3>>>>,
     <<"NUMBER", "1", <<1, 4>>, <<1, 5>>>>,
     <<"NEWLINE", "\n", <<1, 5>>, <<1, 6>>>>,
     <<"NL", "\n", <<2, 0>>, <<2, 1>>>>,
     <<"COMMENT", "# c", <<3, 0>>, <<3, 3>>>>,
     <<"NL", "\n", <<3, 3>>, <<3, 4>>>>,
     <<"ENDMARKER", "", <<4, 0>>, <<4, 0>>>>
   >>,
   tree |-> <<
     [cls |-> "Module", has_pos |-> FALSE, lineno |-> 0, col_offset |-> 0,
      end_lineno |-> 0, end_col_offset |-> 0, decorator_list |-> <<>>,
      children |-> <<2>>],
     [cls |-> "Assign", has_pos |-> TRUE, lineno |-> 1, col_offset |-> 0,
      end_lineno |-> 1, end_col_offset |-> 5, decorator_list |-> <<>>,
      children |-> <<3, 5>>],
     [cls |-> "Name", has_pos |-> TRUE, lineno |-> 1, col_offset |-> 0,
      end_lineno |-> 1, end_col_offset |-> 1, decorator_list |-> <<>>,
      children |-> <<4>>],
     [cls |-> "Store", has_pos |-> FALSE, lineno |-> 0, col_offset |-> 0,
      end_lineno |-> 0, end_col_offset |-> 0, decorator_list |-> <<>>,
      children |-> <<>>],
     [cls |-> "Constant", has_pos |-> TRUE, lineno |-> 1, col_offset |-> 4,
      end_lineno |-> 1, end_col_offset |-> 5, decorator_list |-> <<>>,
      children |-> <<>>]
   >>],
  \* chain: "f(a).b[c]"
  [src |-> <<"f", "(", "a", ")", ".", "b", "[", "c", "]">>,
   legacy |-> FALSE,
   toks |-> <<
     <<"NAME", "f", <<1, 0>>, <<1, 1>>>>,
     <<"OP", "(", <<1, 1>>, <<1, 2>>>>,
     <<"NAME", "a", <<1, 2>>, <<1, 3>>>>,
     <<"OP", ")", <<1, 3>>, <<1, 4>>>>,
     <<"OP", ".", <<1, 4>>, <<1, 5>>>>,
     <<"NAME", "b", <<1, 5>>, <<1, 6>>>>,
     <<"OP", "[", <<1, 6>>, <<1, 7>>>>,
     <<"NAME", "c", <<1, 7>>, <<1, 8>>>>,
     <<"OP", "]", <<1, 8>>, <<1, 9>>>>,
     <<"NEWLINE", "", <<1, 9>>, <<1, 10>>>>,
     <<"ENDMARKER", "", <<2, 0>>, <<2, 0>>>>
   >>,
   tree |-> <<
     [cls |-> "Module", has_pos |-> FALSE, lineno |-> 0, col_offset |-> 0,
      end_lineno |-> 0, end_col_offset |-> 0, decorator_list |-> <<>>,
      children |-> <<2>>],
     [cls |-> "Expr", has_pos |-> TRUE, lineno |-> 1, col_offset |-> 0,
      end_lineno |-> 1, end_col_offset |-> 9, decorator_list |-> <<>>,
      children |-> <<3>>],
     [cls |-> "Subscript", has_pos |-> TRUE, lineno |-> 1, col_offset |-> 0,
      end_lineno |-> 1, end_col_offset |-> 9, decorator_list |-> <<>>,
      children |-> <<4, 11, 13>>],
     [cls |-> "Attribute", has_pos |-> TRUE, lineno |-> 1, col_offset |-> 0,
      end_lineno |-> 1, end_col_offset |-> 6, decorator_list |-> <<>>,
      children |-> <<5, 10>>],
     [cls |-> "Call", has_pos |-> TRUE, lineno |-> 1, col_offset |-> 0,
      end_lineno |-> 1, end_col_offset |-> 4, decorator_list |-> <<>>,
      children |-> <<6, 8>>],
     [cls |-> "Name", has_pos |-> TRUE, lineno |-> 1, col_offset |-> 0,
      end_lineno |-> 1, end_col_offset |-> 1, decorator_list |-> <<>>,
      children |-> <<7>>],
     [cls |-> "Load", has_pos |-> FALSE, lineno |-> 0, col_offset |-> 0,
      end_lineno |-> 0, end_col_offset |-> 0, decorator_list |-> <<>>,
      children |-> <<>>],
     [cls |-> "Name", has_pos |-> TRUE, lineno |-> 1, col_offset |-> 2,
      end_lineno |-> 1, end_col_offset |-> 3, decorator_list |-> <<>>,
      children |-> <<9>>],
     [cls |-> "Load", has_pos |-> FALSE, lineno |-> 0, col_offset |-> 0,
      end_lineno |-> 0, end_col_offset |-> 0, decorator_list |-> <<>>,
      children |-> <<>>],
     [cls |-> "Load", has_pos |-> FALSE, lineno |-> 0, col_offset |-> 0,
      end_lineno |-> 0, end_col_offset |-> 0, decorator_list |-> <<>>,
      children |-> <<>>],
     [cls |-> "Name", has_pos |-> TRUE, lineno |-> 1, col_offset |-> 7,
      end_lineno |-> 1, end_col_offset |-> 8, decorator_list |-> <<>>,
      children |-> <<12>>],
     [cls |-> "Load", has_pos |-> FALSE, lineno |-> 0, col_offset |-> 0,
      end_lineno |-> 0, end_col_offset |-> 0, decorator_list |-> <<>>,
      children |-> <<>>],
     [cls |-> "Load", has_pos |-> FALSE, lineno |-> 0, col_offset |-> 0,
      end_lineno |-> 0, end_col_offset |-> 0, decorator_list |-> <<>>,
      children |-> <<>>]
   >>],
  \* lambda0: "(lambda: 0)()"
  [src |-> <<"(", "l", "a", "m", "b", "d", "a", ":", " ", "0", ")", "(", ")">>,
   legacy |-> FALSE,
   toks |-> <<
     <<"OP", "(", <<1, 0>>, <<1, 1>>>>,
     <<"NAME", "lambda", <<1, 1>>, <<1, 7>>>>,
     <<"OP", ":", <<1, 7>>, <<1, 8>>>>,
     <<"NUMBER", "0", <<1, 9>>, <<1, 10>>>>,
     <<"OP", ")", <<1, 10>>, <<1, 11>>>>,
     <<"OP", "(", <<1, 11>>, <<1, 12>>>>,
     <<"OP", ")", <<1, 12>>, <<1, 13>>>>,
     <<"NEWLINE", "", <<1, 13>>, <<1, 14>>>>,
     <<"ENDMARKER", "", <<2, 0>>, <<2, 0>>>>
   >>,
   tree |-> <<
     [cls |-> "Module", has_pos |-> FALSE, lineno |-> 0, col_offset |-> 0,
      end_lineno |-> 0, end_col_offset |-> 0, decorator_list |-> <<>>,
      children |-> <<2>>],
     [cls |-> "Expr", has_pos |-> TRUE, lineno |-> 1, col_offset |-> 0,
      end_lineno |-> 1, end_col_offset |-> 13, decorator_list |-> <<>>,
      children |-> <<3>>],
     [cls |-> "Call", has_pos |-> TRUE, lineno |-> 1, col_offset |-> 0,
      end_lineno |-> 1, end_col_offset |-> 13, decorator_list |-> <<>>,
      children |-> <<4>>],
     [cls |-> "Lambda", has_pos |-> TRUE, lineno |-> 1, col_offset |-> 1,
      end_lineno |-> 1, end_col_offset |-> 10, decorator_list |-> <<>>,
      children |-> <<5, 6>>],
     [cls |-> "arguments", has_pos |-> FALSE, lineno |-> 0, col_offset |-> 0,
      end_lineno |-> 0, end_col_offset |-> 0, decorator_list |-> <<>>,
      children |-> <<>>],
     [cls |-> "Constant", has_pos |-> TRUE, lineno |-> 1, col_offset |-> 9,
      end_lineno |-> 1, end_col_offset |-> 10, decorator_list |-> <<>>,
      children |-> <<>>]
   >>],
  \* name_legacy: "a" (tokens and tree as made by Python 2)
  [src |-> <<"a">>,
   legacy |-> TRUE,
   toks |-> <<
     <<"NAME", "a", <<1, 0>>, <<1, 1>>>>,
     <<"ENDMARKER", "", <<2, 0>>, <<2, 0>>>>
   >>,
   tree |-> <<
     [cls |-> "Module", has_pos |-> FALSE, lineno |-> 0, col_offset |-> 0,
      end_lineno |-> 0, end_col_offset |-> 0, decorator_list |-> <<>>,
      children |-> <<2>>],
     [cls |-> "Expr", has_pos |-> TRUE, lineno |-> 1, col_offset |-> 0,
      end_lineno |-> 1, end_col_offset |-> 1, decorator_list |-> <<>>,
      children |-> <<3>>],
     [cls |-> "Name", has_pos |-> TRUE, lineno |-> 1, col_offset |-> 0,
      end_lineno |-> 1, end_col_offset |-> 1, decorator_list |-> <<>>,
      children |-> <<4>>],
     [cls |-> "Load", has_pos |-> FALSE, lineno |-> 0, col_offset |-> 0,
      end_lineno |-> 0, end_col_offset |-> 0, decorator_list |-> <<>>,
      children |-> <<>>]
   >>],
  \* call_legacy: "f(a); b" (tokens and tree as made by Python 2)
  [src |-> <<"f", "(", "a", ")", ";", " ", "b">>,
   legacy |-> TRUE,
   toks |-> <<
     <<"NAME", "f", <<1, 0>>, <<1, 1>>>>,
     <<"OP", "(", <<1, 1>>, <<1, 2>>>>,
     <<"NAME", "a", <<1, 2>>, <<1, 3>>>>,
     <<"OP", ")", <<1, 3>>, <<1, 4>>>>,
     <<"OP", ";", <<1, 4>>, <<1, 5>>>>,
     <<"NAME", "b", <<1, 6>>, <<1, 7>>>>,
     <<"ENDMARKER", "", <<2, 0>>, <<2, 0>>>>
   >>,
   tree |-> <<
     [cls |-> "Module", has_pos |-> FALSE, lineno |-> 0, col_offset |-> 0,
      end_lineno |-> 0, end_col_offset |-> 0, decorator_list |-> <<>>,
      children |-> <<2, 8>>],
     [cls |-> "Expr", has_pos |-> TRUE, lineno |-> 1, col_offset |-> 0,
      end_lineno |-> 1, end_col_offset |-> 4, decorator_list |-> <<>>,
      children |-> <<3>>],
     [cls |-> "Call", has_pos |-> TRUE, lineno |-> 1, col_offset |-> 0,
      end_lineno |-> 1, end_col_offset |-> 4, decorator_list |-> <<>>,
      children |-> <<4, 6>>],
     [cls |-> "Name", has_pos |-> TRUE, lineno |-> 1, col_offset |-> 0,
      end_lineno |-> 1, end_col_offset |-> 1, decorator_list |-> <<>>,
      children |-> <<5>>],
     [cls |-> "Load", has_pos |-> FALSE, lineno |-> 0, col_offset |-> 0,
      end_lineno |-> 0, end_col_offset |-> 0, decorator_list |-> <<>>,
      children |-> <<>>],
     [cls |-> "Name", has_pos |-> TRUE, lineno |-> 1, col_offset |-> 2,
      end_lineno |-> 1, end_col_offset |-> 3, decorator_list |-> <<>>,
      children |-> <<7>>],
     [cls |-> "Load", has_pos |-> FALSE, lineno |-> 0, col_offset |-> 0,
      end_lineno |-> 0, end_col_offset |-> 0, decorator_list |-> <<>>,
      children |-> <<>>],
     [cls |-> "Expr", has_pos |-> TRUE, lineno |-> 1, col_offset |-> 6,
      end_lineno |-> 1, end_col_offset |-> 7, decorator_list |-> <<>>,
      children |-> <<9>>],
     [cls |-> "Name", has_pos |-> TRUE, lineno |-> 1, col_offset |-> 6,
      end_lineno |-> 1, end_col_offset |-> 7, decorator_list |-> <<>>,
      children |-> <<10>>],
     [cls |-> "Load", has_pos |-> FALSE, lineno |-> 0, col_offset |-> 0,
      end_lineno |-> 0, end_col_offset |-> 0, decorator_list |-> <<>>,
      children |-> <<>>]
   >>],
  \* binop_lines: "x = (a +\n  b)\n"
  [src |-> <<"x", " ", "=", " ", "(", "a", " ", "+", "\n", " ", " ", "b", ")", "\n">>,
   legacy |-> FALSE,
   toks |-> <<
     <<"NAME", "x", <<1, 0>>, <<1, 1>>>>,
     <<"OP", "=", <<1, 2>>, <<1, 3>>>>,
     <<"OP", "(", <<1, 4>>, <<1, 5>>>>,
     <<"NAME", "a", <<1, 5>>, <<1, 6>>>>,
     <<"OP", "+", <<1, 7>>, <<1, 8>>>>,
     <<"NL", "\n", <<1, 8>>, <<1, 9>>>>,
     <<"NAME", "b", <<2, 2>>, <<2, 3>>>>,
     <<"OP", ")", <<2, 3>>, <<2, 4>>>>,
     <<"NEWLINE", "\n", <<2, 4>>, <<2, 5>>>>,
     <<"ENDMARKER", "", <<3, 0>>, <<3, 0>>>>
   >>,
   tree |-> <<
     [cls |-> "Module", has_pos |-> FALSE, lineno |-> 0, col_offset |-> 0,
      end_lineno |-> 0, end_col_offset |-> 0, decorator_list |-> <<>>,
      children |-> <<2>>],
     [cls |-> "Assign", has_pos |-> TRUE, lineno |-> 1, col_offset |-> 0,
      end_lineno |-> 2, end_col_offset |-> 4, decorator_list |-> <<>>,
      children |-> <<3, 5>>],
     [cls |-> "Name", has_pos |-> TRUE, lineno |-> 1, col_offset |-> 0,
      end_lineno |-> 1, end_col_offset |-> 1, decorator_list |-> <<>>,
      children |-> <<4>>],
     [cls |-> "Store", has_pos |-> FALSE, lineno |-> 0, col_offset |-> 0,
      end_lineno |-> 0, end_col_offset |-> 0, decorator_list |-> <<>>,
      children |-> <<>>],
     [cls |-> "BinOp", has_pos |-> TRUE, lineno |-> 1, col_offset |-> 5,
      end_lineno |-> 2, end_col_offset |-> 3, decorator_list |-> <<>>,
      children |-> <<6, 8, 9>>],
     [cls |-> "Name", has_pos |-> TRUE, lineno |-> 1, col_offset |-> 5,
      end_lineno |-> 1, end_col_offset |-> 6, decorator_list |-> <<>>,
      children |-> <<7>>],
     [cls |-> "Load", has_pos |-> FALSE, lineno |-> 0, col_offset |-> 0,
      end_lineno |-> 0, end_col_offset |-> 0, decorator_list |-> <<>>,
      children |-> <<>>],
     [cls |-> "Add", has_pos |-> FALSE, lineno |-> 0, col_offset |-> 0,
      end_lineno |-> 0, end_col_offset |-> 0, decorator_list |-> <<>>,
      children |-> <<>>],
     [cls |-> "Name", has_pos |-> TRUE, lineno |-> 2, col_offset |-> 2,
      end_lineno |-> 2, end_col_offset |-> 3, decorator_list |-> <<>>,
      children |-> <<10>>],
     [cls |-> "Load", has_pos |-> FALSE, lineno |-> 0, col_offset |-> 0,
      end_lineno |-> 0, end_col_offset |-> 0, decorator_list |-> <<>>,
      children |-> <<>>]
   >>],
  \* num_legacy: "-1" (tokens and tree as made by Python 2)
  [src |-> <<"-", "1">>,
   legacy |-> TRUE,
   toks |-> <<
     <<"OP", "-", <<1, 0>>, <<1, 1>>>>,
     <<"NUMBER", "1", <<1, 1>>, <<1, 2>>>>,
     <<"ENDMARKER", "", <<2, 0>>, <<2, 0>>>>
   >>,
   tree |-> <<
     [cls |-> "Module", has_pos |-> FALSE, lineno |-> 0, col_offset |-> 0,
      end_lineno |-> 0, end_col_offset |-> 0, decorator_list |-> <<>>,
      children |-> <<2>>],
     [cls |-> "Expr", has_pos |-> TRUE, lineno |-> 1, col_offset |-> 0,
      end_lineno |-> 1, end_col_offset |-> 2, decorator_list |-> <<>>,
      children |-> <<3>>],
     [cls |-> "Num", has_pos |-> TRUE, lineno |-> 1, col_offset |-> 0,
      end_lineno |-> 1, end_col_offset |-> 2, decorator_list |-> <<>>,
      children |-> <<>>]
   >>],
  \* listcomp_legacy: "[x for x in y]" (tokens and tree as made by Python 2)
  [src |-> <<"[", "x", " ", "f", "o", "r", " ", "x", " ", "i", "n", " ", "y", "]">>,
   legacy |-> TRUE,
   toks |-> <<
     <<"OP", "[", <<1, 0>>, <<1, 1>>>>,
     <<"NAME", "x", <<1, 1>>, <<1, 2>>>>,
     <<"NAME", "for", <<1, 3>>, <<1, 6>>>>,
     <<"NAME", "x", <<1, 7>>, <<1, 8>>>>,
     <<"NAME", "in", <<1, 9>>, <<1, 11>>>>,
     <<"NAME", "y", <<1, 12>>, <<1, 13>>>>,
     <<"OP", "]", <<1, 13>>, <<1, 14>>>>,
     <<"ENDMARKER", "", <<2, 0>>, <<2, 0>>>>
   >>,
   tree |-> <<
     [cls |-> "Module", has_pos |-> FALSE, lineno |-> 0, col_offset |-> 0,
      end_lineno |-> 0, end_col_offset |-> 0, decorator_list |-> <<>>,
      children |-> <<2>>],
     [cls |-> "Expr", has_pos |-> TRUE, lineno |-> 1, col_offset |-> 0,
      end_lineno |-> 1, end_col_offset |-> 14, decorator_list |-> <<>>,
      children |-> <<3>>],
     [cls |-> "ListComp", has_pos |-> TRUE, lineno |-> 1, col_offset |-> 1,
      end_lineno |-> 1, end_col_offset |-> 14, decorator_list |-> <<>>,
      children |-> <<4, 6>>],
     [cls |-> "Name", has_pos |-> TRUE, lineno |-> 1, col_offset |-> 1,
      end_lineno |-> 1, end_col_offset |-> 2, decorator_list |-> <<>>,
      children |-> <<5>>],
     [cls |-> "Load", has_pos |-> FALSE, lineno |-> 0, col_offset |-> 0,
      end_lineno |-> 0, end_col_offset |-> 0, decorator_list |-> <<>>,
      children |-> <<>>],
     [cls |-> "comprehension", has_pos |-> FALSE, lineno |-> 0, col_offset |-> 0,
      end_lineno |-> 0, end_col_offset |-> 0, decorator_list |-> <<>>,
      children |-> <<7, 9>>],
     [cls |-> "Name", has_pos |-> TRUE, lineno |-> 1, col_offset |-> 7,
      end_lineno |-> 1, end_col_offset |-> 8, decorator_list |-> <<>>,
      children |-> <<8>>],
     [cls |-> "Store", has_pos |-> FALSE, lineno |-> 0, col_offset |-> 0,
      end_lineno |-> 0, end_col_offset |-> 0, decorator_list |-> <<>>,
      children |-> <<>>],
     [cls |-> "Name", has_pos |-> TRUE, lineno |-> 1, col_offset |-> 12,
      end_lineno |-> 1, end_col_offset |-> 13, decorator_list |-> <<>>,
      children |-> <<10>>],
     [cls |-> "Load", has_pos |-> FALSE, lineno |-> 0, col_offset |-> 0,
      end_lineno |-> 0, end_col_offset |-> 0, decorator_list |-> <<>>,
      children |-> <<>>]
   >>],
  \* decorated_legacy: "@d\ndef f(): pass\n" (tokens and tree as made by Python 2)
  [src |-> <<"@", "d", "\n", "d", "e", "f", " ", "f", "(", ")", ":", " ", "p", "a", "s", "s", "\n">>,
   legacy |-> TRUE,
   toks |-> <<
     <<"OP", "@", <<1, 0>>, <<1, 1>>>>,
     <<"NAME", "d", <<1, 1>>, <<1, 2>>>>,
     <<"NEWLINE", "\n", <<1, 2>>, <<1, 3>>>>,
     <<"NAME", "def", <<2, 0>>, <<2, 3>>>>,
     <<"NAME", "f", <<2, 4>>, <<2, 5>>>>,
     <<"OP", "(", <<2, 5>>, <<2, 6>>>>,
     <<"OP", ")", <<2, 6>>, <<2, 7>>>>,
     <<"OP", ":", <<2, 7>>, <<2, 8>>>>,
     <<"NAME", "pass", <<2, 9>>, <<2, 13>>>>,
     <<"NEWLINE", "\n", <<2, 13>>, <<2, 14>>>>,
     <<"ENDMARKER", "", <<3, 0>>, <<3, 0>>>>
   >>,
   tree |-> <<
     [cls |-> "Module", has_pos |-> FALSE, lineno |-> 0, col_offset |-> 0,
      end_lineno |-> 0, end_col_offset |-> 0, decorator_list |-> <<>>,
      children |-> <<2>>],
     [cls |-> "FunctionDef", has_pos |-> TRUE, lineno |-> 1, col_offset |-> 0,
      end_lineno |-> 2, end_col_offset |-> 13, decorator_list |-> <<5>>,
      children |-> <<3, 4, 5>>],
     [cls |-> "arguments", has_pos |-> FALSE, lineno |-> 0, col_offset |-> 0,
      end_lineno |-> 0, end_col_offset |-> 0, decorator_list |-> <<>>,
      children |-> <<>>],
     [cls |-> "Pass", has_pos |-> TRUE, lineno |-> 2, col_offset |-> 9,
      end_lineno |-> 2, end_col_offset |-> 13, decorator_list |-> <<>>,
      children |-> <<>>],
     [cls |-> "Name", has_pos |-> TRUE, lineno |-> 1, col_offset |-> 1,
      end_lineno |-> 1, end_col_offset |-> 2, decorator_list |-> <<>>,
      children |-> <<6>>],
     [cls |-> "Load", has_pos |-> FALSE, lineno |-> 0, col_offset |-> 0,
      end_lineno |-> 0, end_col_offset |-> 0, decorator_list |-> <<>>,
      children |-> <<>>]
   >>],
  \* lambda_tuple: "lambda: (a,)"
  [src |-> <<"l", "a", "m", "b", "d", "a", ":", " ", "(", "a", ",", ")">>,
   legacy |-> FALSE,
   toks |-> <<
     <<"NAME", "lambda", <<1, 0>>, <<1, 6>>>>,
     <<"OP", ":", <<1, 6>>, <<1, 7>>>>,
     <<"OP", "(", <<1, 8>>, <<1, 9>>>>,
     <<"NAME", "a", <<1, 9>>, <<1, 10>>>>,
     <<"OP", ",", <<1, 10>>, <<1, 11>>>>,
     <<"OP", ")", <<1, 11>>, <<1, 12>>>>,
     <<"NEWLINE", "", <<1, 12>>, <<1, 13>>>>,
     <<"ENDMARKER", "", <<2, 0>>, <<2, 0>>>>
   >>,
   tree |-> <<
     [cls |-> "Module", has_pos |-> FALSE, lineno |-> 0, col_offset |-> 0,
      end_lineno |-> 0, end_col_offset |-> 0, decorator_list |-> <<>>,
      children |-> <<2>>],
     [cls |-> "Expr", has_pos |-> TRUE, lineno |-> 1, col_offset |-> 0,
      end_lineno |-> 1, end_col_offset |-> 12, decorator_list |-> <<>>,
      children |-> <<3>>],
     [cls |-> "Lambda", has_pos |-> TRUE, lineno |-> 1, col_offset |-> 0,
      end_lineno |-> 1, end_col_offset |-> 12, decorator_list |-> <<>>,
      children |-> <<4, 5>>],
     [cls |-> "arguments", has_pos |-> FALSE, lineno |-> 0, col_offset |-> 0,
      end_lineno |-> 0, end_col_offset |-> 0, decorator_list |-> <<>>,
      children |-> <<>>],
     [cls |-> "Tuple", has_pos |-> TRUE, lineno |-> 1, col_offset |-> 8,
      end_lineno |-> 1, end_col_offset |-> 12, decorator_list |-> <<>>,
      children |-> <<6, 8>>],
     [cls |-> "Name", has_pos |-> TRUE, lineno |-> 1, col_offset |-> 9,
      end_lineno |-> 1, end_col_offset |-> 10, decorator_list |-> <<>>,
      children |-> <<7>>],
     [cls |-> "Load", has_pos |-> FALSE, lineno |-> 0, col_offset |-> 0,
      end_lineno |-> 0, end_col_offset |-> 0, decorator_list |-> <<>>,
      children |-> <<>>],
     [cls |-> "Load", has_pos |-> FALSE, lineno |-> 0, col_offset |-> 0,
      end_lineno |-> 0, end_col_offset |-> 0, decorator_list |-> <<>>,
      children |-> <<>>]
   >>],
  \* paren_index: "a[(b)]"
  [src |-> <<"a", "[", "(", "b", ")", "]">>,
   legacy |-> FALSE,
   toks |-> <<
     <<"NAME", "a", <<1, 0>>, <<1, 1>>>>,
     <<"OP", "[", <<1, 1>>, <<1, 2>>>>,
     <<"OP", "(", <<1, 2>>, <<1, 3>>>>,
     <<"NAME", "b", <<1, 3>>, <<1, 4>>>>,
     <<"OP", ")", <<1, 4>>, <<1, 5>>>>,
     <<"OP", "]", <<1, 5>>, <<1, 6>>>>,
     <<"NEWLINE", "", <<1, 6>>, <<1, 7>>>>,
     <<"ENDMARKER", "", <<2, 0>>, <<2, 0>>>>
   >>,
   tree |-> <<
     [cls |-> "Module", has_pos |-> FALSE, lineno |-> 0, col_offset |-> 0,
      end_lineno |-> 0, end_col_offset |-> 0, decorator_list |-> <<>>,
      children |-> <<2>>],
     [cls |-> "Expr", has_pos |-> TRUE, lineno |-> 1, col_offset |-> 0,
      end_lineno |-> 1, end_col_offset |-> 6, decorator_list |-> <<>>,
      children |-> <<3>>],
     [cls |-> "Subscript", has_pos |-> TRUE, lineno |-> 1, col_offset |-> 0,
      end_lineno |-> 1, end_col_offset |-> 6, decorator_list |-> <<>>,
      children |-> <<4, 6, 8>>],
     [cls |-> "Name", has_pos |-> TRUE, lineno |-> 1, col_offset |-> 0,
      end_lineno |-> 1, end_col_offset |-> 1, decorator_list |-> <<>>,
      children |-> <<5>>],
     [cls |-> "Load", has_pos |-> FALSE, lineno |-> 0, col_offset |-> 0,
      end_lineno |-> 0, end_col_offset |-> 0, decorator_list |-> <<>>,
      children |-> <<>>],
     [cls |-> "Name", has_pos |-> TRUE, lineno |-> 1, col_offset |-> 3,
      end_lineno |-> 1, end_col_offset |-> 4, decorator_list |-> <<>>,
      children |-> <<7>>],
     [cls |-> "Load", has_pos |-> FALSE, lineno |-> 0, col_offset |-> 0,
      end_lineno |-> 0, end_col_offset |-> 0, decorator_list |-> <<>>,
      children |-> <<>>],
     [cls |-> "Load", has_pos |-> FALSE, lineno |-> 0, col_offset |-> 0,
      end_lineno |-> 0, end_col_offset |-> 0, decorator_list |-> <<>>,
      children |-> <<>>]
   >>],
  \* fstring_call: "f\"{g(x)}\""
  [src |-> <<"f", "\"", "{", "g", "(", "x", ")", "}", "\"">>,
   legacy |-> FALSE,
   toks |-> <<
     <<"STRING", "f\"{g(x)}\"", <<1, 0>>, <<1, 9>>>>,
     <<"NEWLINE", "", <<1, 9>>, <<1, 10>>>>,
     <<"ENDMARKER", "", <<2, 0>>, <<2, 0>>>>
   >>,
   tree |-> <<
     [cls |-> "Module", has_pos |-> FALSE, lineno |-> 0, col_offset |-> 0,
      end_lineno |-> 0, end_col_offset |-> 0, decorator_list |-> <<>>,
      children |-> <<2>>],
     [cls |-> "Expr", has_pos |-> TRUE, lineno |-> 1, col_offset |-> 0,
      end_lineno |-> 1, end_col_offset |-> 9, decorator_list |-> <<>>,
      children |-> <<3>>],
     [cls |-> "JoinedStr", has_pos |-> TRUE, lineno |-> 1, col_offset |-> 0,
      end_lineno |-> 1, end_col_offset |-> 9, decorator_list |-> <<>>,
      children |-> <<4>>],
     [cls |-> "FormattedValue", has_pos |-> TRUE, lineno |-> 1, col_offset |-> 0,
      end_lineno |-> 1, end_col_offset |-> 9, decorator_list |-> <<>>,
      children |-> <<5>>],
     [cls |-> "Call", has_pos |-> TRUE, lineno |-> 1, col_offset |-> 3,
      end_lineno |-> 1, end_col_offset |-> 7, decorator_list |-> <<>>,
      children |-> <<6, 8>>],
     [cls |-> "Name", has_pos |-> TRUE, lineno |-> 1, col_offset |-> 3,
      end_lineno |-> 1, end_col_offset |-> 4, decorator_list |-> <<>>,
      children |-> <<7>>],
     [cls |-> "Load", has_pos |-> FALSE, lineno |-> 0, col_offset |-> 0,
      end_lineno |-> 0, end_col_offset |-> 0, decorator_list |-> <<>>,
      children |-> <<>>],
     [cls |-> "Name", has_pos |-> TRUE, lineno |-> 1, col_offset |-> 5,
      end_lineno |-> 1, end_col_offset |-> 6, decorator_list |-> <<>>,
      children |-> <<9>>],
     [cls |-> "Load", has_pos |-> FALSE, lineno |-> 0, col_offset |-> 0,
      end_lineno |-> 0, end_col_offset |-> 0, decorator_list |-> <<>>,
      children |-> <<>>]
   >>],
  \* fstring_spec: "\"a\" f\"{x:{y}}\""
  [src |-> <<"\"", "a", "\"", " ", "f", "\"", "{", "x", ":", "{", "y", "}", "}", "\"">>,
   legacy |-> FALSE,
   toks |-> <<
     <<"STRING", "\"a\"", <<1, 0>>, <<1, 3>>>>,
     <<"STRING", "f\"{x:{y}}\"", <<1, 4>>, <<1, 14>>>>,
     <<"NEWLINE", "", <<1, 14>>, <<1, 15>>>>,
     <<"ENDMARKER", "", <<2, 0>>, <<2, 0>>>>
   >>,
   tree |-> <<
     [cls |-> "Module", has_pos |-> FALSE, lineno |-> 0, col_offset |-> 0,
      end_lineno |-> 0, end_col_offset |-> 0, decorator_list |-> <<>>,
      children |-> <<2>>],
     [cls |-> "Expr", has_pos |-> TRUE, lineno |-> 1, col_offset |-> 0,
      end_lineno |-> 1, end_col_offset |-> 14, decorator_list |-> <<>>,
      children |-> <<3>>],
     [cls |-> "JoinedStr", has_pos |-> TRUE, lineno |-> 1, col_offset |-> 0,
      end_lineno |-> 1, end_col_offset |-> 14, decorator_list |-> <<>>,
      children |-> <<4, 5>>],
     [cls |-> "Constant", has_pos |-> TRUE, lineno |-> 1, col_offset |-> 0,
      end_lineno |-> 1, end_col_offset |-> 14, decorator_list |-> <<>>,
      children |-> <<>>],
     [cls |-> "FormattedValue", has_pos |-> TRUE, lineno |-> 1, col_offset |-> 0,
      end_lineno |-> 1, end_col_offset |-> 14, decorator_list |-> <<>>,
      children |-> <<6, 8>>],
     [cls |-> "Name", has_pos |-> TRUE, lineno |-> 1, col_offset |-> 7,
      end_lineno |-> 1, end_col_offset |-> 8, decorator_list |-> <<>>,
      children |-> <<7>>],
     [cls |-> "Load", has_pos |-> FALSE, lineno |-> 0, col_offset |-> 0,
      end_lineno |-> 0, end_col_offset |-> 0, decorator_list |-> <<>>,
      children |-> <<>>],
     [cls |-> "JoinedStr", has_pos |-> TRUE, lineno |-> 1, col_offset |-> 4,
      end_lineno |-> 1, end_col_offset |-> 14, decorator_list |-> <<>>,
      children |-> <<9>>],
     [cls |-> "FormattedValue", has_pos |-> TRUE, lineno |-> 1, col_offset |-> 0,
      end_lineno |-> 1, end_col_offset |-> 14, decorator_list |-> <<>>,
      children |-> <<10>>],
     [cls |-> "Name", has_pos |-> TRUE, lineno |-> 1, col_offset |-> 10,
      end_lineno |-> 1, end_col_offset |-> 11, decorator_list |-> <<>>,
      children |-> <<11>>],
     [cls |-> "Load", has_pos |-> FALSE, lineno |-> 0, col_offset |-> 0,
      end_lineno |-> 0, end_col_offset |-> 0, decorator_list |-> <<>>,
      children |-> <<>>]
   >>]
>>

(***************************************************************************)
(* mark_tokens on a tree, and text extraction from its nodes.              *)
(***************************************************************************)
InitMark ==
  \E k \in 1..Len(Scenarios) :
    /\ Construct(Scenarios[k].src, Scenarios[k].toks)
    /\ tree = Scenarios[k].tree
    /\ first_token = <<>>
    /\ last_token = <<>>
    /\ pc = "idle"
    /\ stack = <<>>
    /\ done = {}
    /\ runs = 0
    /\ root = <<>>

Source == UNCHANGED <<text, line_offsets, tokens, token_offsets, tree, root>>

\* mark_tokens(root_node): AssignFirstTokens(self).visit_tree(root_node) starts
MarkTokens ==
  /\ pc \in {"idle", "done", "error"}
  /\ runs < MaxRuns
  /\ runs' = runs + 1
  /\ pc' = "first"
  /\ stack' = <<Entry(Root, None, None, TRUE)>>
  /\ done' = {}
  /\ call' = Call("mark_tokens", Root, None, "", NoStr, FALSE)
  /\ ret' = Ok(None)
  /\ UNCHANGED <<first_token, last_token>>
  /\ Source

Fail(r) ==
  /\ pc' = "error"
  /\ ret' = r
  /\ stack' = <<>>

FirstPrevisit ==
  /\ pc = "first"
  /\ stack # <<>>
  /\ Top.pre
  /\ LET current == Top.node
         tok == first_visit_before_children(current)
     IN IF current \in done THEN Fail(Raise("AssertionError")) /\ UNCHANGED done
        ELSE IF tok.exc # "" THEN Fail(tok) /\ UNCHANGED done
        ELSE /\ done' = done \cup {current}
             /\ stack' = PushChildren(current, Top.par_value,
                                      IF tok.val # None THEN tok.val ELSE Top.par_value,
                                      tok.val)
             /\ UNCHANGED <<pc, ret>>
  /\ UNCHANGED <<first_token, last_token, call>>
  /\ UNCHANGED runs
  /\ Source

FirstPostvisit ==
  /\ pc = "first"
  /\ stack # <<>>
  /\ ~Top.pre
  /\ LET r == first_visit_after_children(Top.node, Top.par_value, Top.value) IN
     IF r.exc # "" THEN Fail(r) /\ UNCHANGED first_token
     ELSE /\ first_token' = (Top.node :> r.val) @@ first_token
          /\ stack' = Pop
          /\ UNCHANGED <<pc, ret>>
  /\ UNCHANGED <<last_token, done, call>>
  /\ UNCHANGED runs
  /\ Source

\* the first visit_tree returns although nodes are left on its stack
FirstReturnsEarly ==
  /\ pc = "first"
  /\ pc' = "last"
  /\ stack' = <<Entry(Root, None, None, TRUE)>>
  /\ done' = {}
  /\ UNCHANGED <<first_token, last_token, call, ret>>
  /\ UNCHANGED runs
  /\ Source

\* the first visit_tree returns; AssignLastTokens(self).visit_tree(root_node) starts
FirstReturns ==
  /\ pc = "first"
  /\ stack = <<>>
  /\ pc' = "last"
  /\ stack' = <<Entry(Root, None, None, TRUE)>>
  /\ done' = {}
  /\ UNCHANGED <<first_token, last_token, call, ret>>
  /\ UNCHANGED runs
  /\ Source

LastPrevisit ==
  /\ pc = "last"
  /\ stack # <<>>
  /\ Top.pre
  /\ IF Top.node \in done THEN Fail(Raise("AssertionError")) /\ UNCHANGED done
     ELSE /\ done' = done \cup {Top.node}
          /\ stack' = PushChildren(Top.node, Top.par_value, None, None)
          /\ UNCHANGED <<pc, ret>>
  /\ UNCHANGED <<first_token, last_token, call>>
  /\ UNCHANGED runs
  /\ Source

LastPostvisit ==
  /\ pc = "last"
  /\ stack # <<>>
  /\ ~Top.pre
  /\ LET r == last_visit_after_children(Top.node) IN
     IF r.exc # "" THEN Fail(r) /\ UNCHANGED last_token
     ELSE /\ last_token' = (Top.node :> r.val) @@ last_token
          /\ stack' = Pop
          /\ UNCHANGED <<pc, ret>>
  /\ UNCHANGED <<first_token, done, call>>
  /\ UNCHANGED runs
  /\ Source

\* the second visit_tree returns, and mark_tokens with it; when init_tokens() called it
\* from within get_text_range or get_text, that call goes on with the tree marked
LastReturns ==
  /\ pc = "last"
  /\ stack = <<>>
  /\ pc' = "done"
  /\ ret' = IF call.op = "get_text_range" THEN get_text_range(call.a)
            ELSE IF call.op = "get_text" THEN get_text(call.a)
            ELSE Ok(None)
  /\ UNCHANGED <<first_token, last_token, stack, done, call>>
  /\ UNCHANGED runs
  /\ Source

Marked == UNCHANGED <<first_token, last_token, pc, stack, done, runs>>

\* list(self._generate_tokens(self._text))
tokenize_text ==
  LET k == CHOOSE k \in 1..Len(Scenarios) : Scenarios[k].src = text /\ ~Scenarios[k].legacy
  IN generate_tokens(Scenarios[k].toks, line_offsets, Len(text))

\* init_tokens() while self._tokens is None, called by op: the text is tokenized, the
\* token offsets are extracted and, if there is a tree, mark_tokens(self._tree) starts
init_tokens(op, n) ==
  /\ tokens' = tokenize_text
  /\ token_offsets' = TokenOffsets(tokenize_text)
  /\ call' = Call(op, n, None, "", NoStr, FALSE)
  /\ ret' = Ok(None)
  /\ IF tree # <<>>
     THEN /\ runs' = runs + 1
          /\ pc' = "first"
          /\ stack' = <<Entry(Root, None, None, TRUE)>>
          /\ done' = {}
     ELSE UNCHANGED <<runs, pc, stack, done>>
  /\ UNCHANGED <<text, line_offsets, tree, first_token, last_token, root>>

InitTokens ==
  /\ pc \in {"idle", "done", "error"}
  /\ IF tokens # <<>>
     THEN /\ call' = Call("init_tokens", None, None, "", NoStr, FALSE)
          /\ ret' = Ok(None)
          /\ Marked
          /\ Source
     ELSE init_tokens("init_tokens", None)

GetTextRange ==
  /\ pc \in {"idle", "done", "error"}
  /\ \E n \in Nodes :
       IF tokens = <<>> /\ ~supports_unmarked(n)
       THEN init_tokens("get_text_range", n)
       ELSE /\ call' = Call("get_text_range", n, None, "", NoStr, FALSE)
            /\ ret' = get_text_range(n)
            /\ Marked
            /\ Source

GetText ==
  /\ pc \in {"idle", "done", "error"}
  /\ \E n \in Nodes :
       IF tokens = <<>> /\ ~supports_unmarked(n)
       THEN init_tokens("get_text", n)
       ELSE /\ call' = Call("get_text", n, None, "", NoStr, FALSE)
            /\ ret' = get_text(n)
            /\ Marked
            /\ Source

CodeTextGetText ==
  /\ pc \in {"idle", "done", "error"}
  /\ \E n \in Nodes :
       /\ call' = Call("CodeText.get_text", n, None, "", NoStr, FALSE)
       /\ ret' = CodeText_get_text(n)
  /\ Marked
  /\ Source

NextMark ==
  \/ MarkTokens
  \/ FirstPrevisit
  \/ FirstPostvisit
  \/ FirstReturns
  \/ LastPrevisit
  \/ LastPostvisit
  \/ LastReturns
  \/ GetTextRange
  \/ GetText
  \/ CodeTextGetText

SpecMark == InitMark /\ [][NextMark]_vars

(***************************************************************************)
(* visit_tree with the callbacks of collect_nodes_preorder (previsit       *)
(* appends the node to a list and returns (None, None), there is no        *)
(* postvisit), next to its two uses in mark_tokens.                        *)
(***************************************************************************)
CollectStart ==
  /\ pc = "idle"
  /\ pc' = "visit"
  /\ stack' = <<Entry(Root, None, None, TRUE)>>
  /\ done' = {}
  /\ call' = Call("collect_nodes_preorder", Root, None, "", NoStr, FALSE)
  /\ ret' = OkSeq(<<>>)
  /\ UNCHANGED <<first_token, last_token, runs>>
  /\ Source

CollectPrevisit ==
  /\ pc = "visit"
  /\ stack # <<>>
  /\ Top.pre
  /\ IF Top.node \in done THEN Fail(Raise("AssertionError")) /\ UNCHANGED done
     ELSE /\ done' = done \cup {Top.node}
          /\ ret' = OkSeq(Append(ret.seq, Top.node))
          /\ stack' = PushChildren(Top.node, Top.par_value, None, None)
          /\ UNCHANGED pc
  /\ UNCHANGED <<first_token, last_token, call, runs>>
  /\ Source

CollectPostvisit ==
  /\ pc = "visit"
  /\ stack # <<>>
  /\ ~Top.pre
  /\ stack' = Pop
  /\ UNCHANGED <<first_token, last_token, pc, done, call, ret, runs>>
  /\ Source

\* visit_tree returns, and collect_nodes_preorder returns its list
CollectReturns ==
  /\ pc = "visit"
  /\ stack = <<>>
  /\ pc' = "idle"
  /\ UNCHANGED <<first_token, last_token, stack, done, call, ret, runs>>
  /\ Source

\* the loop of visit_tree goes on until its stack is empty
Collect ==
  \/ CollectPrevisit
  \/ CollectPostvisit
  \/ CollectReturns

NextVisit ==
  \/ NextMark
  \/ CollectStart
  \/ Collect

SpecVisit == InitMark /\ [][NextVisit]_vars /\ WF_vars(Collect)

(***************************************************************************)
(* ASTTokens(source_text, tree=tree, init_tokens=False): the token list is *)
(* set up by the first call that needs it.                                 *)
(***************************************************************************)
\* the trees the constructor is given: built by ast or by astroid
TreeKinds == {"ast", "astroid"}

\* __init__ with init_tokens=False accepts an ast tree or no tree only
check_tree(kind, with_tokens) ==
  IF ~with_tokens /\ kind \notin {"ast", "none"} THEN Raise("ValueError") ELSE Ok(None)

\* pc = "failed": the constructor has raised and there is no object to call
InitLazy ==
  \E k \in 1..Len(Scenarios), kind \in TreeKinds :
    /\ ~Scenarios[k].legacy
    /\ text = Scenarios[k].src
    /\ line_offsets = LineOffsets(Scenarios[k].src)
    /\ tokens = <<>>
    /\ token_offsets = <<>>
    /\ tree = Scenarios[k].tree
    /\ first_token = <<>>
    /\ last_token = <<>>
    /\ stack = <<>>
    /\ done = {}
    /\ runs = 0
    /\ root = <<>>
    /\ IF check_tree(kind, FALSE).exc # ""
       THEN /\ pc = "failed"
            /\ call = Call("__init__", None, None, kind, NoStr, FALSE)
            /\ ret = check_tree(kind, FALSE)
       ELSE /\ pc = "idle"
            /\ call = NoCall
            /\ ret = Ok(None)

NextLazy ==
  \/ InitTokens
  \/ GetTextRange
  \/ GetText
  \/ FirstPrevisit
  \/ FirstPostvisit
  \/ FirstReturns
  \/ LastPrevisit
  \/ LastPostvisit
  \/ LastReturns

SpecLazy == InitLazy /\ [][NextLazy]_vars

(***************************************************************************)
(* The bracket interval tree (intervaltree.py).  The objects make_tree     *)
(* creates are kept in a sequence, an object is referred to by its place   *)
(* in it; the Root is object 1.                                            *)
(***************************************************************************)
\* one-line source of brackets and one-letter names, every character a token
BracketAlphabet == {"(", ")", "[", "]", "a"}

\* tokenize.generate_tokens on such a line: its tokens, NEWLINE '' and ENDMARKER
BracketTokenize(t) ==
  [k \in 1..Len(t) |->
     <<IF t[k] = "a" THEN "NAME" ELSE "OP", t[k], <<1, k - 1>>, <<1, k>>>>]
  \o (IF t = <<>> THEN <<>> ELSE << <<"NEWLINE", "", <<1, Len(t)>>, <<1, Len(t) + 1>>>> >>)
  \o << <<"ENDMARKER", "", <<2, 0>>, <<2, 0>>>> >>

\* the brackets open after the k first characters of t, innermost last; <<"!">> once a
\* closing bracket has come that does not close the innermost open one
RECURSIVE OpenAfter(_, _)
OpenAfter(t, k) ==
  IF k = 0 THEN <<>>
  ELSE LET before == OpenAfter(t, k - 1) IN
       IF before = <<"!">> THEN before
       ELSE IF t[k] \in {"(", "["} THEN Append(before, t[k])
       ELSE IF t[k] = "a" THEN before
       ELSE IF before # <<>> /\ before[Len(before)] = (IF t[k] = ")" THEN "(" ELSE "[")
       THEN SubSeq(before, 1, Len(before) - 1)
       ELSE <<"!">>

\* the lines Python can tokenize into one token per character: brackets balanced, no
\* two letters in a row
BracketTexts ==
  {t \in UNION {[1..n -> BracketAlphabet] : n \in 0..MaxBrackets} :
     /\ OpenAfter(t, Len(t)) = <<>>
     /\ \A k \in 1..(Len(t) - 1) : ~(t[k] = "a" /\ t[k + 1] = "a")}

\* float('inf'), the high of an interval that is not closed yet
inf(toks) == Len(toks) + 1

EmptyNode(low, high) ==
  [cls |-> "EmptyNode", low |-> low, high |-> high, children |-> <<>>,
   _low |-> <<>>, _high |-> <<>>]

\* IntervalTree.__init__ (cls is "IntervalTree" or "Root"): the new node is object
\* Len(heap) + 1, its only child the EmptyNode(low, low) made with it
IntervalTree(heap, cls, low, high) ==
  heap \o << [cls |-> cls, low |-> low, high |-> high, children |-> <<Len(heap) + 2>>,
              _low |-> <<>>, _high |-> <<>>],
             EmptyNode(low, low) >>

\* IntervalTree.append
append(heap, self, node) ==
  LET prev == heap[heap[self].children[Len(heap[self].children)]] IN
  IF heap[node].low # prev.high + 1
  THEN [(heap \o <<EmptyNode(prev.high + 1, heap[node].low - 1)>>)
          EXCEPT ![self].children = @ \o <<Len(heap) + 1, node>>]
  ELSE [heap EXCEPT ![self].children = Append(@, node)]

\* the loop of make_tree from token i on
RECURSIVE make_tree_loop(_, _, _, _)
make_tree_loop(toks, i, heap, stk) ==
  IF i = Len(toks) THEN [exc |-> "", heap |-> heap, stack |-> stk]
  ELSE LET t == toks[i + 1] IN
       IF t.type = "OP" /\ t.string \in {"[", "{", "("}
       THEN IF stk = <<>> THEN [exc |-> "IndexError", heap |-> heap, stack |-> stk]
            ELSE LET node == Len(heap) + 1
                     made == IntervalTree(heap, "IntervalTree", i, inf(toks))
                 IN make_tree_loop(toks, i + 1, append(made, stk[Len(stk)], node),
                                   Append(stk, node))
       ELSE IF t.type = "OP" /\ t.string \in {"]", "}", ")"}
       THEN IF stk = <<>> THEN [exc |-> "IndexError", heap |-> heap, stack |-> stk]
            ELSE make_tree_loop(toks, i + 1, [heap EXCEPT ![stk[Len(stk)]].high = i],
                                SubSeq(stk, 1, Len(stk) - 1))
       ELSE make_tree_loop(toks, i + 1, heap, stk)

\* IntervalTree.finalize and EmptyNode.finalize. After "for c in self.children" the
\* name c is the last child of the loop, and the two list comprehensions take its low
\* and high once for every child.
RECURSIVE finalize(_, _)
RECURSIVE finalize_each(_, _)
finalize_each(heap, cs) ==
  IF cs = <<>> THEN heap ELSE finalize_each(finalize(heap, Head(cs)), Tail(cs))

finalize(heap, self) ==
  IF heap[self].cls = "EmptyNode" THEN heap
  ELSE LET h1 == finalize_each(heap, heap[self].children)
           c == h1[self].children[Len(h1[self].children)]
           h2 == IF h1[c].high < h1[self].high - 1
                 THEN [(h1 \o <<EmptyNode(h1[c].high + 1, h1[self].high - 1)>>)
                         EXCEPT ![self].children = Append(@, Len(h1) + 1)]
                 ELSE h1
           popped == Tail(h2[self].children)
       IN [h2 EXCEPT ![self].children = popped,
                     ![self]._low = [k \in 1..Len(popped) |-> h2[c].low],
                     ![self]._high = [k \in 1..Len(popped) |-> h2[c].high]]

\* make_tree(toks): the objects of the tree, the Root being object 1
make_tree(toks) ==
  LET r == make_tree_loop(toks, 0, IntervalTree(<<>>, "Root", 0, Len(toks)), <<1>>) IN
  IF r.exc # "" THEN [exc |-> r.exc, heap |-> <<>>]
  ELSE IF Len(r.stack) # 1 THEN [exc |-> "AssertionError", heap |-> <<>>]
  ELSE [exc |-> "", heap |-> finalize(r.heap, r.stack[1])]

RECURSIVE bisect_left_loop(_, _, _, _)
bisect_left_loop(a, x, lo, hi) ==
  IF lo < hi
  THEN LET mid == (lo + hi) \div 2 IN
       IF a[mid + 1] < x THEN bisect_left_loop(a, x, mid + 1, hi)
       ELSE bisect_left_loop(a, x, lo, mid)
  ELSE lo

bisect_left(a, x) == bisect_left_loop(a, x, 0, Len(a))

query_low(self, low) == IF root[self].cls = "EmptyNode" THEN low ELSE root[self].low

query_high(self, high) == IF root[self].cls = "EmptyNode" THEN high ELSE root[self].high

\* query_interval of EmptyNode, IntervalTree and Root, with _query_interval
RECURSIVE query_interval(_, _, _)
query_interval(self, low, high) ==
  LET node == root[self]
      n == Len(node.children)
      lowi == bisect(node._low, low) - 1
      hii == bisect_left(node._high, high)
  IN
  IF node.cls = "EmptyNode" THEN OkRange(low, high)
  ELSE IF node.cls = "IntervalTree" /\ low = node.low THEN OkRange(low, node.high)
  ELSE IF node.cls = "IntervalTree" /\ high = node.high THEN OkRange(node.low, high)
  ELSE IF lowi < 0 - n \/ lowi >= n THEN Raise("IndexError")
  ELSE LET A == node.children[IF lowi < 0 THEN n + lowi + 1 ELSE lowi + 1] IN
       IF high <= root[A].high THEN query_interval(A, low, high)
       ELSE IF hii >= n THEN Raise("IndexError")
       ELSE OkRange(query_low(A, low), query_high(node.children[hii + 1], high))

\* an ASTTokens for a line of brackets; no interval tree yet
InitTree == \E t \in BracketTexts : Construct(t, BracketTokenize(t)) /\ NoTree

\* root = make_tree(toks)
MakeTree ==
  /\ pc = "idle"
  /\ root = <<>>
  /\ call' = Call("make_tree", None, None, "", NoStr, FALSE)
  /\ LET made == make_tree(tokens) IN
     IF made.exc # ""
     THEN /\ ret' = Raise(made.exc)
          /\ pc' = "error"
          /\ root' = root
     ELSE /\ ret' = Ok(None)
          /\ pc' = "done"
          /\ root' = made.heap
  /\ UNCHANGED <<text, line_offsets, tokens, token_offsets, tree, first_token, last_token,
                 stack, done, runs>>

\* root.query_interval(low, high)
QueryInterval ==
  /\ pc = "done"
  /\ root # <<>>
  /\ \E low \in TokenIds, high \in TokenIds :
       /\ low <= high
       /\ call' = Call("query_interval", low, high, "", NoStr, FALSE)
       /\ ret' = query_interval(1, low, high)
  /\ UNCHANGED <<text, line_offsets, tokens, token_offsets, tree, first_token, last_token,
                 pc, stack, done, runs, root>>

NextTree ==
  \/ MakeTree
  \/ QueryInterval

SpecTree == InitTree /\ [][NextTree]_vars

(***************************************************************************)
(* Properties of mark_tokens and of text extraction, under SpecMark.       *)
(***************************************************************************)
\* the nodes visit_tree reaches from the root through iter_children
Visited == {n \in Nodes : tree[n].cls \notin SingletonClasses}

IsMarked(n) ==
  /\ n \in DOMAIN first_token
  /\ n \in DOMAIN last_token
  /\ first_token[n] # None
  /\ last_token[n] # None

Children(n) == {iter_children(n)[k] : k \in 1..Len(iter_children(n))}

\* C1: once both passes have completed without error, every child C of every node N
\* (each of them, in any position of the child order) has
\* C.first_token.index >= N.first_token.index and C.last_token.index <= N.last_token.index.
C1_Containment ==
  pc = "done" =>
    \A n \in Visited : \A c \in Children(n) :
      (IsMarked(n) /\ IsMarked(c)) =>
        /\ first_token[c] >= first_token[n]
        /\ last_token[c] <= last_token[n]

\* C2: once both passes have completed without error, every node has
\* first_token.index <= last_token.index.
C2_FirstBeforeLast ==
  pc = "done" => \A n \in Visited : IsMarked(n) => first_token[n] <= last_token[n]

\* C3: mark_tokens either returns with first_token and last_token set to tokens (not
\* None) on every node reachable through iter_children, or raises the ValueError of
\* expect_token; it fails in no other way.
C3_TwoOutcomes ==
  /\ pc = "done" => \A n \in Visited : IsMarked(n)
  /\ (pc = "error" /\ call.op = "mark_tokens") => ret.exc = "ValueError"

\* the offset at which the line holding offset p begins
LineStart(p) ==
  CHOOSE b \in 0..p :
    /\ b = 0 \/ text[b] = "\n"
    /\ \A i \in (b + 1)..p : text[i] # "\n"

\* text[s : e] for 0 <= s <= e <= len(text)
TextBetween(s, e) == [k \in 1..(e - s) |-> text[s + k]]

SpansNewline(n) ==
  \E i \in first_token[n]..last_token[n] : Tok(i).type = "NEWLINE"

StartOf(n) ==
  IF SpansNewline(n) THEN LineStart(Tok(first_token[n]).startpos)
  ELSE Tok(first_token[n]).startpos

\* C4: for every marked node, get_text_range(node) is (start, node.last_token.endpos),
\* where start is node.first_token.startpos when no NEWLINE token is among the node's
\* tokens and otherwise the offset at which the line of node.first_token begins;
\* get_text(node) is text[start:end]; and 0 <= start <= end <= len(text).
C4_TextRange ==
  (pc = "done" /\ call.op \in {"get_text_range", "get_text"} /\ IsMarked(call.a)) =>
    LET start == StartOf(call.a)
        end == Tok(last_token[call.a]).endpos
    IN /\ ret.exc = ""
       /\ 0 <= start /\ start <= end /\ end <= Len(text)
       /\ call.op = "get_text_range" => (ret.kind = "range" /\ ret.seq = <<start, end>>)
       /\ call.op = "get_text" => (ret.kind = "str" /\ ret.txt = TextBetween(start, end))

\* C5: for a node that has no first_token, get_text_range returns (0, 0) and get_text
\* returns the empty string; neither raises and neither returns None.
C5_NoFirstToken ==
  (/\ call.op \in {"get_text_range", "get_text", "CodeText.get_text"}
   /\ call.a \notin DOMAIN first_token) =>
    /\ ret.exc = ""
    /\ ret.kind # "none"
    /\ call.op = "get_text_range" => (ret.kind = "range" /\ ret.seq = <<0, 0>>)
    /\ call.op \in {"get_text", "CodeText.get_text"} => (ret.kind = "str" /\ ret.txt = <<>>)

(***************************************************************************)
(* Properties of the calls on the token list, under SpecTok.               *)
(***************************************************************************)
LastIndex == Len(tokens) - 1

Coding(i) == ~is_non_coding_token(Tok(i).type)

\* token t is where offset falls: it starts at or before offset and no later token does
Locates(t, offset) ==
  /\ Tok(t).startpos <= offset
  /\ \A j \in TokenIds : j > t => Tok(j).startpos > offset

\* the offset a call of get_token_from_offset or get_token asks about
AskedOffset ==
  IF call.op = "get_token" THEN line_to_offset(call.a, call.b) ELSE call.a

C7_Monotone ==
  /\ (call.op = "next_token" /\ ret.exc = "") =>
       /\ ret.val > call.a
       /\ call.flag => ret.val = call.a + 1
       /\ ~call.flag => (Coding(ret.val) /\ \A j \in (call.a + 1)..(ret.val - 1) : ~Coding(j))
  /\ (call.op = "prev_token" /\ ret.exc = "") =>
       /\ ret.val < call.a
       /\ call.flag => ret.val = call.a - 1
       /\ ~call.flag => (Coding(ret.val) /\ \A j \in (ret.val + 1)..(call.a - 1) : ~Coding(j))

\* C8: next_token on the last token fails with IndexError, and so does prev_token on
\* the token of index 0 or, with include_extra false, on a token that only COMMENT and
\* NL tokens precede; neither returns a token from the other end of the list.
C8_EndsFail ==
  /\ (call.op = "next_token" /\ call.a = LastIndex) => ret.exc = "IndexError"
  /\ (/\ call.op = "prev_token"
      /\ \/ call.a = 0
         \/ (~call.flag /\ \A j \in 0..(call.a - 1) : ~Coding(j))) => ret.exc = "IndexError"

\* the tokens find_token may return: those from start on in the direction of the search
\* that match the type and, when one is given, the string
Matches ==
  {j \in TokenIds : /\ match_token(j, call.typ, call.str)
                    /\ IF call.flag THEN j <= call.a ELSE j >= call.a}

\* C9: find_token returns without raising, either the matching token nearest to start in
\* the direction of the search (start included, COMMENT and NL tokens included), or the
\* end marker when no token matches; forward, never a token of smaller index than start.
C9_FindToken ==
  call.op \in {"find_token", "CodeText.find_token"} =>
    /\ ret.exc = ""
    /\ ret.kind = "token"
    /\ IF Matches = {} THEN ISEOF(Tok(ret.val).type)
       ELSE /\ ret.val \in Matches
            /\ \A j \in Matches : IF call.flag THEN j <= ret.val ELSE j >= ret.val
    /\ ~call.flag => ret.val >= call.a

\* C10: token_range(first, last, include_extra) yields in increasing order, each once,
\* the tokens of index in [first.index, last.index]: all of them when include_extra is
\* true, those that are not COMMENT or NL when it is false; none when first is after last.
C10_TokenRange ==
  call.op = "token_range" =>
    /\ ret.exc = ""
    /\ ret.kind = "tokens"
    /\ \A k \in 1..(Len(ret.seq) - 1) : ret.seq[k] < ret.seq[k + 1]
    /\ {ret.seq[k] : k \in 1..Len(ret.seq)} = {i \in call.a..call.b : call.flag \/ Coding(i)}
    /\ call.flag => ret.seq = [k \in 1..(call.b - call.a + 1) |-> call.a + k - 1]
    /\ call.a > call.b => ret.seq = <<>>

\* a range over several tokens from which a COMMENT or NL token is left out
C10_Witness ==
  /\ call.op = "token_range"
  /\ ~call.flag
  /\ call.a < call.b
  /\ Len(ret.seq) >= 2
  /\ Len(ret.seq) < call.b - call.a + 1
  /\ ret.seq[1] = call.a
  /\ ret.seq[Len(ret.seq)] = call.b

(***************************************************************************)
(* Properties of LineNumbers, under SpecTok.                               *)
(***************************************************************************)
\* the offsets at which lines begin: 0 and the offset after every "\n"
LineBegins == {0} \cup {p \in 1..Len(text) : text[p] = "\n"}

\* the offset at which line l (1-based) begins, for 1 <= l <= Cardinality(LineBegins)
BeginOfLine(l) == CHOOSE b \in LineBegins : Cardinality({c \in LineBegins : c < b}) = l - 1

Clamp(offset) == IF offset < 0 THEN 0 ELSE IF offset > Len(text) THEN Len(text) ELSE offset

\* C11: line_to_offset(line, column) is in [0, len(text)] for every integer line and
\* column: 0 for a line below 1, len(text) for a line beyond the last one, and otherwise
\* min(start of the line + column, len(text)) with a negative column counted as 0;
\* offset_to_line clamps its argument to [0, len(text)] and returns the line that holds
\* the clamped offset and the column of the offset in that line.
C11_LineClamp ==
  /\ call.op = "line_to_offset" =>
       /\ ret.exc = ""
       /\ 0 <= ret.val /\ ret.val <= Len(text)
       /\ call.a < 1 => ret.val = 0
       /\ call.a > Cardinality(LineBegins) => ret.val = Len(text)
       /\ (1 <= call.a /\ call.a <= Cardinality(LineBegins)) =>
            ret.val = Min(BeginOfLine(call.a) + (IF call.b < 0 THEN 0 ELSE call.b), Len(text))
  /\ call.op = "offset_to_line" =>
       /\ ret.exc = ""
       /\ 1 <= ret.seq[1] /\ ret.seq[1] <= Cardinality(LineBegins)
       /\ ret.seq[2] >= 0
       /\ BeginOfLine(ret.seq[1]) + ret.seq[2] = Clamp(call.a)
       /\ \A b \in LineBegins : b <= Clamp(call.a) => b <= BeginOfLine(ret.seq[1])

\* a negative column on a line that is not the first one: the start of that line
C11_Witness ==
  /\ call.op = "line_to_offset"
  /\ call.a > 1
  /\ call.a <= Cardinality(LineBegins)
  /\ call.b < 0
  /\ ret.val = BeginOfLine(call.a)
  /\ ret.val > 0

(***************************************************************************)
(* Properties of repeated and of single runs of mark_tokens, under         *)
(* SpecMark.                                                               *)
(***************************************************************************)
\* C12: a second (or later) run of mark_tokens on the same tree and token list assigns
\* to every node the first_token and last_token the first run assigned, and ends as the
\* first run did (the first run completed exactly when it set the root's last_token):
\* no step of the later run changes a mark.
C12_Idempotent ==
  [][runs' >= 2 =>
       /\ first_token' = first_token
       /\ last_token' = last_token
       /\ pc' = "done" => Root \in DOMAIN last_token
       /\ pc' = "error" => Root \notin DOMAIN last_token]_vars

\* a second run has completed on a tree with an attribute access, marked by both passes
C12_Witness ==
  /\ runs = 2
  /\ pc = "done"
  /\ \E n \in Visited : tree[n].cls = "Attribute" /\ IsMarked(n) /\ last_token[n] > first_token[n]

\* the nodes that still have an entry on visit_tree's stack
OnStack == {stack[k].node : k \in 1..Len(stack)}

\* C13: within a run of mark_tokens the passes do not interleave: no last_token is
\* assigned before every node of the tree has its first_token, and when the last-token
\* pass handles a node (reading first_token and last_token of its children), every child
\* has been handled by that pass already and has both fields.
C13_NoInterleave ==
  /\ (runs = 1 /\ pc = "first") => DOMAIN last_token = {}
  /\ (runs = 1 /\ DOMAIN last_token # {}) => Visited \subseteq DOMAIN first_token
  /\ pc = "last" => Visited \subseteq DOMAIN first_token
  /\ (pc = "last" /\ stack # <<>> /\ ~Top.pre) =>
       \A c \in Children(Top.node) :
         /\ c \in done
         /\ c \notin OnStack
         /\ c \in DOMAIN first_token
         /\ c \in DOMAIN last_token

\* the last-token pass is about to handle a node with several children in the first run
C13_Witness ==
  /\ runs = 1
  /\ pc = "last"
  /\ stack # <<>>
  /\ ~Top.pre
  /\ Cardinality(Children(Top.node)) >= 2
  /\ DOMAIN last_token # {}
  /\ Top.node \notin DOMAIN last_token

(***************************************************************************)
(* Properties of the last-token pass, under SpecMark.                      *)
(***************************************************************************)
AttributeClasses == {"Attribute", "AssignAttr", "DelAttr"}

CorrectedClasses == AttributeClasses \cup {"Call", "Subscript", "Tuple", "Num"}

\* the token the last-token pass starts from at node n
Base(n) == IF LastChild(n) # NoNode THEN last_token[LastChild(n)] ELSE first_token[n]

\* the tokens after token t that are not COMMENT or NL, in order
CodingAfter(t) ==
  SelectSeq([k \in 1..(LastIndex - t) |-> t + k], LAMBDA i : Coding(i))

IsOp(t, string) == Tok(t).type = "OP" /\ Tok(t).string = string

EndsWithEndMarker == Tok(LastIndex).type = "ENDMARKER"

NoEndMarkerMarked ==
  (pc = "done" /\ text # <<>>) =>
    \A n \in Visited : Tok(last_token[n]).type # "ENDMARKER"

\* C15: the last token is the end marker, the tokens' startpos is strictly increasing
\* along the list, and after annotation of a non-empty source no node's last_token is
\* the end marker.
C15_Original ==
  /\ EndsWithEndMarker
  /\ \A i \in 0..(LastIndex - 1) : Tok(i).startpos < Tok(i + 1).startpos
  /\ NoEndMarkerMarked

(***************************************************************************)
(* Properties of the spans of particular constructs, under SpecMark.       *)
(***************************************************************************)
\* the statements that hold no other statement (simple_stmt of the grammar)
SimpleStatementClasses ==
  {"Return", "Delete", "Assign", "AugAssign", "AnnAssign", "Raise", "Assert", "Import",
   "ImportFrom", "Global", "Nonlocal", "Expr", "Pass", "Break", "Continue"}

TokensOf(n) == first_token[n]..last_token[n]

\* C16: when simple statements are joined by semicolons on one logical line, every
\* statement's span covers that statement only: no ";" lies among its tokens (so no
\* later statement of the line does either) and its last token is not a comment.
C16_Semicolons ==
  pc = "done" =>
    \A n \in Visited :
      (IsMarked(n) /\ tree[n].cls \in SimpleStatementClasses) =>
        /\ \A i \in TokensOf(n) : ~IsOp(i, ";")
        /\ Tok(last_token[n]).type # "COMMENT"

\* the first token after token t that is not a COMMENT or NL, as a set (empty at the end)
NextCoding(t) == IF CodingAfter(t) = <<>> THEN {} ELSE {CodingAfter(t)[1]}

\* the tokens at which the span of tuple n may end: its last element's last token, the
\* comma right after that element, or the ")" right after either of them
TupleEnds(n) ==
  LET element == Base(n)
      comma == {t \in NextCoding(element) : IsOp(t, ",")}
      paren == {t \in UNION {NextCoding(e) : e \in {element} \cup comma} : IsOp(t, ")")}
  IN {element} \cup comma \cup paren

\* C17: the last-token step on a Tuple node succeeds and sets last_token to the tuple's
\* own last element, its own trailing comma or its own closing parenthesis (never to a
\* comma that follows the closing parenthesis, which belongs to an enclosing tuple).
C17_Tuples ==
  [][(pc = "last" /\ stack # <<>> /\ ~Top.pre /\ tree[Top.node].cls = "Tuple") =>
       /\ pc' = "last"
       /\ Top.node \in DOMAIN last_token'
       /\ last_token'[Top.node] \in TupleEnds(Top.node)]_vars

Opens(a, b) == Cardinality({i \in a..b : IsOp(i, "(")})

Closes(a, b) == Cardinality({i \in a..b : IsOp(i, ")")})

\* token b is the ")" that closes the "(" at token a
ClosesAt(a, b) ==
  /\ a < b
  /\ IsOp(a, "(")
  /\ IsOp(b, ")")
  /\ Opens(a, b) = Closes(a, b)
  /\ \A j \in a..(b - 1) : Opens(a, j) > Closes(a, j)

\* the "(" tokens after the callee of call n: the first of them opens the argument list
AfterCallee(n) == {i \in TokenIds : i > last_token[FirstChild(n)] /\ IsOp(i, "(")}

\* C18: the last_token of a Call node is the ")" that closes the call's own argument
\* list (the first "(" after the callee), also when the callee is in parentheses.
C18_CallCloses ==
  pc = "done" =>
    \A n \in Visited :
      (IsMarked(n) /\ tree[n].cls = "Call") =>
        /\ AfterCallee(n) # {}
        /\ ClosesAt(CHOOSE i \in AfterCallee(n) : \A j \in AfterCallee(n) : i <= j,
                    last_token[n])

(***************************************************************************)
(* Properties of get_text on nodes that span lines, under SpecMark.        *)
(***************************************************************************)
SpansNL(n) == \E i \in TokensOf(n) : Tok(i).type = "NL"

\* the first and last tokens of n are an opening bracket and the closing bracket of
\* the same kind
BracketPair(n) ==
  \E pair \in {<<"(", ")">>, <<"[", "]">>, <<"{", "}">>} :
    IsOp(first_token[n], pair[1]) /\ IsOp(last_token[n], pair[2])

Parenthesize(n) == is_expr(n) /\ SpansNL(n) /\ ~SpansNewline(n) /\ ~BracketPair(n)

\* C19: get_text of an expression node whose tokens (non-coding ones included) hold an
\* NL token and no NEWLINE token is the source substring in one added pair of
\* parentheses, unless its first and last tokens are a bracket pair; get_text of every
\* other node is the substring unchanged.
C19_Parenthesized ==
  (pc = "done" /\ call.op \in {"get_text", "CodeText.get_text"} /\ IsMarked(call.a)) =>
    LET substring == TextBetween(StartOf(call.a), Tok(last_token[call.a]).endpos) IN
    /\ ret.kind = "str"
    /\ ret.txt = IF Parenthesize(call.a) THEN <<"(">> \o substring \o <<")">>
                 ELSE substring

(***************************************************************************)
(* Properties of the token list's lifecycle, under SpecLazy.               *)
(***************************************************************************)
Extracts == {"get_text_range", "get_text"}

\* the token list is set up by the first call that needs it, once: a get_text_range or
\* get_text call on a node that supports unmarked extraction leaves the token list
\* uninitialised and the tree unmarked; such a call on a node that does not support it,
\* made while the token list is uninitialised, sets up the token list and its offsets
\* and starts mark_tokens on the tree; once the token list is set up no step changes it
\* or starts mark_tokens again, and an init_tokens call changes nothing
LazyLifecycle ==
  [][/\ (tokens = <<>> /\ call'.op \in Extracts /\ supports_unmarked(call'.a)) =>
          /\ tokens' = <<>>
          /\ token_offsets' = <<>>
          /\ runs' = 0
          /\ first_token' = <<>>
          /\ last_token' = <<>>
     /\ (tokens = <<>> /\ call'.op \in Extracts /\ ~supports_unmarked(call'.a)) =>
          /\ tokens' # <<>>
          /\ token_offsets' = [k \in 1..Len(tokens') |-> tokens'[k].startpos]
          /\ runs' = 1
          /\ pc' = "first"
     /\ tokens # <<>> =>
          /\ tokens' = tokens
          /\ token_offsets' = token_offsets
          /\ runs' = runs
     /\ (tokens # <<>> /\ pc \in {"idle", "done", "error"} /\ call'.op = "init_tokens") =>
          /\ first_token' = first_token
          /\ last_token' = last_token
          /\ pc' = pc]_vars

\* C20: on an object built with init_tokens=False over a tree, the token list stays
\* uninitialised through get_text_range and get_text calls on nodes that support
\* unmarked extraction, the first such call on a node that does not support it sets up
\* the token list and marks the tree (the marking it starts runs to its end, and every
\* node has its tokens then), and from then on the token list is never rebuilt and the
\* tree never marked again.
C20_Lazy ==
  /\ LazyLifecycle
  /\ [][(call.op \in Extracts /\ pc \in {"first", "last"}) =>
          pc' \in {"first", "last", "done"}]_vars
  /\ [](pc = "done" => (runs = 1 /\ \A n \in Visited : IsMarked(n)))

\* C21: constructing ASTTokens with init_tokens=False and an astroid tree fails with
\* NotImplementedError, and no token list is built.
C21_AstroidRejected ==
  (call.op = "__init__" /\ call.typ = "astroid" /\ ~call.flag) =>
    /\ pc = "failed"
    /\ ret.exc = "NotImplementedError"
    /\ tokens = <<>>
    /\ token_offsets = <<>>

(***************************************************************************)
(* Properties of visit_tree, under SpecVisit.                              *)
(***************************************************************************)
Visiting == pc \in {"first", "last", "visit"}

Parent(c) == CHOOSE p \in Nodes : c \in Children(p)

RECURSIVE Descendants(_)
Descendants(n) == Children(n) \cup UNION {Descendants(c) : c \in Children(n)}

RECURSIVE PreorderOf(_)
RECURSIVE Preorder(_)
\* the nodes under the nodes of sequence ns, each node before its children, the
\* children in child order
PreorderOf(ns) == IF ns = <<>> THEN <<>> ELSE Preorder(Head(ns)) \o PreorderOf(Tail(ns))

Preorder(n) == <<n>> \o PreorderOf(iter_children(n))

\* the entries of visit_tree's stack that wait for previsit (pre) or for postvisit
Waiting(pre) == {k \in 1..Len(stack) : stack[k].pre = pre}

\* the nodes whose postvisit has been called in the traversal under way
Postvisited == done \ OnStack

\* the children of p that come before c in child order
EarlierSiblings(p, c) ==
  {iter_children(p)[j] : j \in {i \in 1..Len(iter_children(p)) :
                                  \E k \in (i + 1)..Len(iter_children(p)) :
                                    iter_children(p)[k] = c}}

\* what previsit of the node of stack entry k (waiting for postvisit) returned as
\* par_value for its children: (token or parent_token) in the first pass, None in the
\* second pass, which has no previsit, and in collect_nodes_preorder
ReturnedParValue(k) ==
  IF pc = "first" /\ stack[k].value # None THEN stack[k].value
  ELSE IF pc = "first" THEN stack[k].par_value
  ELSE None

VisitOrder ==
  Visiting =>
    /\ \A i, j \in 1..Len(stack) : i # j => stack[i].node # stack[j].node
    /\ \A k \in Waiting(TRUE) : stack[k].node \notin done
    /\ \A k \in Waiting(FALSE) : stack[k].node \in done
    /\ stack # <<>> => (stack[1].node = Root /\ stack[1].par_value = None)
    /\ stack = <<>> => (done = Visited /\ Postvisited = Visited)
    /\ \A n \in done \ {Root} :
         /\ Parent(n) \in done
         /\ EarlierSiblings(Parent(n), n) \subseteq done
    /\ \A n \in Postvisited : Descendants(n) \subseteq Postvisited
    /\ \A k \in Waiting(TRUE) :
         stack[k].node # Root =>
           \E j \in Waiting(FALSE) :
             /\ j < k
             /\ stack[j].node = Parent(stack[k].node)
             /\ stack[k].par_value = ReturnedParValue(j)

\* the previsits so far are a beginning of the tree's preorder, and all of it at the end
PreorderSoFar ==
  call.op = "collect_nodes_preorder" =>
    /\ ret.exc = ""
    /\ Len(ret.seq) <= Len(Preorder(Root))
    /\ ret.seq = SubSeq(Preorder(Root), 1, Len(ret.seq))
    /\ pc = "idle" => ret.seq = Preorder(Root)

\* a field of the nodes changes only in the postvisit of its pass, and only on the node
\* that is visited
WrittenInPostvisit ==
  /\ first_token' # first_token =>
       /\ pc = "first" /\ stack # <<>> /\ ~Top.pre
       /\ DOMAIN first_token' = DOMAIN first_token \cup {Top.node}
       /\ \A n \in DOMAIN first_token \ {Top.node} : first_token'[n] = first_token[n]
  /\ last_token' # last_token =>
       /\ pc = "last" /\ stack # <<>> /\ ~Top.pre
       /\ DOMAIN last_token' = DOMAIN last_token \cup {Top.node}
       /\ \A n \in DOMAIN last_token \ {Top.node} : last_token'[n] = last_token[n]

\* the calls of previsit and postvisit still to come in the traversal under way
StepsLeft == 2 * Cardinality(Visited \ done) + Cardinality(Waiting(FALSE))

\* every iteration of visit_tree's loop brings its end nearer
Progress == (Visiting /\ stack # <<>> /\ pc' = pc) => StepsLeft' < StepsLeft

Anchor(n) ==
  IF tree[n].has_pos THEN get_token_from_utf8(tree[n].lineno, tree[n].col_offset).val
  ELSE None

\* the anchor of the nearest ancestor that has one, None when no ancestor has
RECURSIVE Fallback(_)
Fallback(n) ==
  IF n = Root THEN None
  ELSE IF Anchor(Parent(n)) # None THEN Anchor(Parent(n))
  ELSE Fallback(Parent(n))

Resolved(n) ==
  LET child == FirstChild(n) IN
  IF Anchor(n) # None /\ (child = NoNode \/ ~(first_token[child] < Anchor(n)))
  THEN Anchor(n)
  ELSE IF child # NoNode THEN first_token[child]
  ELSE Fallback(n)

GapTokens(n) == iter_non_child_tokens(first_token[n], Base(n), n)

IsOpener(t) == Tok(t).type = "OP" /\ Tok(t).string \in {"(", "[", "{"}

IsCloser(t) == Tok(t).type = "OP" /\ Tok(t).string \in {")", "]", "}"}

Counterpart(string) == CASE string = "(" -> ")" [] string = "[" -> "]" [] string = "{" -> "}"

\* the openers minus the closers among the gap tokens g[p] .. g[q]
Depth(g, p, q) ==
  Cardinality({j \in p..q : IsOpener(g[j])}) - Cardinality({j \in p..q : IsCloser(g[j])})

\* the opening brackets of the gap that no later token of the gap closes, outermost first
UnmatchedOpeners(g) ==
  LET open == SelectSeq([p \in 1..Len(g) |-> p],
                        LAMBDA p : IsOpener(g[p]) /\ \A q \in p..Len(g) : Depth(g, p, q) > 0)
  IN [i \in 1..Len(open) |-> g[open[i]]]

\* the steps of the extension, i = 1 for the innermost unmatched opener, at which the
\* coding token reached is not the closing counterpart of that opener
Mismatches(n) ==
  LET open == UnmatchedOpeners(GapTokens(n).seq)
      k == Len(open)
      after == CodingAfter(Base(n))
  IN {i \in 1..k : \/ i > Len(after)
                   \/ ~IsOp(after[i], Counterpart(Tok(open[k + 1 - i]).string))}

\* the candidate last token after the extension, when no step of it fails
Extended(n) ==
  LET k == Len(UnmatchedOpeners(GapTokens(n).seq)) IN
  IF k = 0 THEN Base(n) ELSE CodingAfter(Base(n))[k]

LineStop(c) ==
  LET newlines == {i \in c..LastIndex : Tok(i).type = "NEWLINE"} IN
  IF newlines = {} THEN LastIndex ELSE CHOOSE i \in newlines : \A j \in newlines : i <= j

\* the tokens before token t that are not COMMENT or NL
CodingBefore(t) == {j \in 0..(t - 1) : Coding(j)}

\* C25: for a statement node the candidate after the statement step, which is the
\* node's last_token, is the nearest coding token before the first NEWLINE token at or
\* after the bracket-extended candidate, before the end marker when no NEWLINE token
\* follows; it is no NEWLINE, COMMENT, NL or ENDMARKER token.
C25_StatementStep ==
  [][(/\ pc = "last" /\ stack # <<>> /\ ~Top.pre
      /\ is_stmt(Top.node)
      /\ last_matched(Top.node).exc = "") =>
       LET n == Top.node
           before == CodingBefore(LineStop(last_matched(n).val))
       IN /\ pc' = "last"
          /\ before # {}
          /\ \A j \in before : j <= last_token'[n]
          /\ last_token'[n] \in before
          /\ Tok(last_token'[n]).type \notin {"NEWLINE", "COMMENT", "NL", "ENDMARKER"}]_vars

\* the ")" of a Call, the "]" of a Subscript
ClosingOf(n) == IF tree[n].cls = "Call" THEN ")" ELSE "]"

\* C26: the last_token of a Call node is the first ")" operator token at or after the
\* candidate, that of a Subscript node the first "]" operator token at or after it,
\* the candidate being the last child's last_token extended by bracket matching; the
\* last_token does not come before the last child's last_token.
C26_CallSubscript ==
  [][(/\ pc = "last" /\ stack # <<>> /\ ~Top.pre
      /\ tree[Top.node].cls \in {"Call", "Subscript"}
      /\ last_matched(Top.node).exc = "") =>
       LET n == Top.node
           candidate == last_matched(n).val
       IN /\ pc' = "last"
          /\ last_token'[n] >= candidate
          /\ IsOp(last_token'[n], ClosingOf(n))
          /\ \A i \in candidate..(last_token'[n] - 1) : ~IsOp(i, ClosingOf(n))
          /\ last_token'[n] >= last_token[LastChild(n)]]_vars

\* token i lies within the tokens of a child of node n
InChild(n, i) == \E c \in Children(n) : first_token[c] <= i /\ i <= last_token[c]

\* the coding tokens from first to last that lie within no child of n, in index order
NonChildTokens(first, last, n) ==
  SelectSeq([k \in 1..(last - first + 1) |-> first + k - 1],
            LAMBDA i : Coding(i) /\ ~InChild(n, i))

\* C27: where the last-token pass calls it, _iter_non_child_tokens(first, last, node)
\* yields exactly the coding tokens with index in [first, last] that lie in no child's
\* [first_token, last_token] range, each once and in increasing order, and no token
\* outside [first, last], also when a child's first_token is the token of index 0.
C27_NonChildTokens ==
  (pc = "last" /\ stack # <<>> /\ ~Top.pre /\ GapTokens(Top.node).exc = "") =>
    GapTokens(Top.node).seq = NonChildTokens(first_token[Top.node], Base(Top.node), Top.node)

(***************************************************************************)
(* Properties of the bracket interval tree, under SpecTree.                *)
(***************************************************************************)
\* the objects of the tree: the Root and the children of objects of the tree
RECURSIVE Below(_)
Below(n) == {n} \cup UNION {Below(root[n].children[k]) : k \in 1..Len(root[n].children)}

\* the first index of the span between the ends of node n: the first token for the
\* Root, the token after the opening bracket for a bracket interval
InnerFirst(n) == IF root[n].cls = "Root" THEN 0 ELSE root[n].low + 1

\* token b is the closing bracket that matches the opening bracket at token a
MatchingClose(a, b) ==
  /\ a < b
  /\ IsOpener(a)
  /\ IsOp(b, Counterpart(Tok(a).string))
  /\ Cardinality({j \in a..b : IsOpener(j)}) = Cardinality({j \in a..b : IsCloser(j)})
  /\ \A m \in a..(b - 1) :
       Cardinality({j \in a..m : IsOpener(j)}) > Cardinality({j \in a..m : IsCloser(j)})

\* C28: in the tree make_tree returns for a bracket-balanced token list, the children
\* of every node that has children, the Root included, partition the node's inner
\* span: the first child starts at the first index of the span, every child starts
\* right after the child before it ends, every child has low <= high + 1, and every
\* bracket interval runs from an opening bracket to the closing bracket matching it.
C28_Partition ==
  root # <<>> =>
    \A n \in Below(1) :
      LET ch == root[n].children IN
      /\ ch # <<>> => root[ch[1]].low = InnerFirst(n)
      /\ \A k \in 1..(Len(ch) - 1) : root[ch[k]].high + 1 = root[ch[k + 1]].low
      /\ \A k \in 1..Len(ch) : root[ch[k]].low <= root[ch[k]].high + 1
      /\ root[n].cls = "IntervalTree" => MatchingClose(root[n].low, root[n].high)

\* no bracket pair has exactly one of its two tokens among the tokens lo .. hi
BalancedSpan(lo, hi) ==
  \A a \in TokenIds, b \in TokenIds :
    MatchingClose(a, b) => ((lo <= a /\ a <= hi) <=> (lo <= b /\ b <= hi))

\* the balanced spans that contain the tokens low .. high
Enclosing(low, high) ==
  {e \in (0..low) \X (high..LastIndex) : BalancedSpan(e[1], e[2])}

\* C29: for the tree of a bracket-balanced token list and 0 <= low <= high < number of
\* tokens, root.query_interval(low, high) returns the smallest balanced span that
\* contains [low, high]: a span (low', high') with low' <= low and high <= high' that
\* holds both tokens or neither of every bracket pair, and lies within every other
\* such span.
C29_SmallestEnclosing ==
  call.op = "query_interval" =>
    /\ ret.exc = ""
    /\ ret.seq \in Enclosing(call.a, call.b)
    /\ \A e \in Enclosing(call.a, call.b) : e[1] <= ret.seq[1] /\ ret.seq[2] <= e[2]

(***************************************************************************)
(* Properties of text extraction with lazy tokens, under SpecLazy.         *)
(***************************************************************************)
\* C30: on an object built with init_tokens=False, get_text_range(node) returns the
\* same value whatever calls came before it: what it returns for the node while the
\* token list is not initialised (the range computed from the node's own positions)
\* is also what it returns once an earlier call has initialised the token list.
C30_HistoryIndependent ==
  (/\ call.op = "get_text_range"
   /\ pc \in {"idle", "done"}
   /\ supports_unmarked(call.a)) =>
    ret = get_text_range_unmarked(call.a)

====
